---------------------------- MODULE Spec2Model ----------------------------
(***************************************************************************)
(* A model of the DNS wire codec of dnsquery (dnslib):                     *)
(*   - the bit-packed flags word and the 12-octet header                   *)
(*     (src/src/network_order/dns.rs, src/src/rfc1035.rs),                 *)
(*   - the domain-name decoder DomainName::from_position                   *)
(*     (src/src/rfc1035.rs) and the domain-name encoder                    *)
(*     (src/src/network_order/dns.rs),                                     *)
(*   - the character-string decoder and the u16 decoder.                   *)
(*                                                                         *)
(* Octets are integers 0..255, buffers are sequences of octets.  A Rust    *)
(* position p (0-based) is element p + 1 of the sequence.                  *)
(***************************************************************************)
EXTENDS Integers, Sequences, FiniteSets, TLC

VARIABLES
    pc,        \* position of the operation under way
    buffer,    \* the octets read (a slice under a Cursor) or written (a Vec<u8>)
    position,  \* Cursor::position()
    result,    \* "none" while running, "Ok", or the DNSError variant returned
    written,   \* the usize an encoder returned
    flags0,    \* the DNSPacketFlags value handed to the encoder
    flags,     \* the DNSPacketFlags the decoder writes into
    header,    \* the DNSPacketHeader the decoder writes into
    out,       \* the Vec<u8> a re-encoding appends to
    name0,     \* the labels of the DomainName handed to the encoder
    pos,       \* the pos argument of the outermost from_position call
    index,     \* the local index of the running from_position frame
    stack,     \* the suspended from_position frames (their index), innermost last
    labels,    \* DomainName::labels of the decode target
    ret,       \* the usize the outermost from_position returned
    discarded, \* the Result of the last nested from_position call, bound to _
    cs,        \* the CharacterString the decoder writes into
    target,    \* the u16 the decoder writes into
    prim,      \* the primitive type whose codec is under way
    v0,        \* the primitive value handed to the encoder
    number,    \* the primitive the decoder writes into
    packet0,   \* the DNSPacket<DNSQuestion> handed to the encoder
    question,  \* the DNSQuestion the decoder writes into
    enum_name, \* the enum whose conversion is under way
    variant0,  \* the variant handed to the encoder
    discriminant, \* the integer handed to try_from
    variant,   \* the variant the decoder or try_from writes into
    program,   \* the caller that builds the query: main.rs, dnsquery.rs or send_query
    no_opt,    \* options.no_opt
    query,     \* the DNSMessage, DnsQuery or DNSPacket<DNSQuestion> being built
    pushes,    \* the push_question calls made so far
    decoded,   \* how many records of each section receive_answer has decoded
    exit_code, \* "none", or the status std::process::exit was called with
    text,      \* the &str a DomainName is built from (options.domain), as octets
    events,    \* what main has done so far, in order
    record,    \* the ResourceRecord the decoder writes into
    elements,  \* the Vec<T> the decoder pushes onto
    rounds,    \* the decodes into one and the same target made so far
    status     \* the exit status of the process, -1 while it runs

vars == <<pc, buffer, position, result, written, flags0, flags, header, out,
          name0, pos, index, stack, labels, ret, discarded, cs, target,
          prim, v0, number, packet0, question,
          enum_name, variant0, discriminant, variant,
          program, no_opt, query, pushes, decoded, exit_code,
          text, events, record, elements, rounds, status>>

flagVars == <<flags0, flags>>
nameVars == <<name0, pos, index, stack, labels, ret, discarded>>
scalarVars == <<cs, target>>
primVars == <<prim, v0, number>>
packetVars == <<packet0, question>>
enumVars == <<enum_name, variant0, discriminant, variant>>
queryVars == <<program, no_opt, query, pushes>>
receiveVars == <<decoded, exit_code>>
clientVars == <<text, events, record, elements, rounds, status>>
otherVars == <<primVars, packetVars, enumVars, queryVars, receiveVars, clientVars>>
besidesPrim == <<packetVars, enumVars, queryVars, receiveVars, clientVars>>
besidesPacket == <<primVars, enumVars, queryVars, receiveVars, clientVars>>
besidesEnum == <<primVars, packetVars, queryVars, receiveVars, clientVars>>
besidesQuery == <<primVars, packetVars, enumVars, receiveVars, clientVars>>
besidesReceive == <<primVars, enumVars, queryVars, clientVars>>

-----------------------------------------------------------------------------
(* Fixed-width integer arithmetic.                                          *)

Octets == 0 .. 255

\* x << n on a u16: the bits shifted out are lost
Shl16(x, n) == (x * 2^n) % 2^16

\* x >> n on an unsigned integer
Shr(x, n) == x \div 2^n

\* x & (2^n - 1)
LowBits(x, n) == x % 2^n

\* a | b
RECURSIVE BitOr(_, _)
BitOr(a, b) ==
    IF a = 0 THEN b
    ELSE IF b = 0 THEN a
    ELSE (IF a % 2 = 1 \/ b % 2 = 1 THEN 1 ELSE 0) + 2 * BitOr(a \div 2, b \div 2)

\* bool as u16
BoolAsU16(b) == IF b THEN 1 ELSE 0

\* WriteBytesExt::write_u16::<BigEndian>
write_u16(v) == <<(v \div 256) % 256, v % 256>>

\* the octets of buf from position p (0-based), n of them
Slice(buf, p, n) == [i \in 1 .. n |-> buf[p + i]]

\* ReadBytesExt::read_u16::<BigEndian> on a Cursor at position p: the value
\* and the new position, or UnexpectedEof when fewer than 2 octets remain
read_u16(buf, p) ==
    IF p + 2 <= Len(buf)
    THEN [ok |-> TRUE, v |-> buf[p + 1] * 256 + buf[p + 2], position |-> p + 2]
    ELSE [ok |-> FALSE, v |-> 0, position |-> p]

-----------------------------------------------------------------------------
(* The enums of rfc1035.rs: variant |-> discriminant.                       *)

PacketType == [Query |-> 0, Response |-> 1]

OpCode == [Query |-> 0, IQuery |-> 1, Status |-> 2, Unassigned |-> 3,
           Notify |-> 4, Update |-> 5, DOS |-> 6]

ResponseCode ==
    [NoError |-> 0, FormErr |-> 1, ServFail |-> 2, NXDomain |-> 3, NotImp |-> 4,
     Refused |-> 5, YXDomain |-> 6, YXRRSet |-> 7, NXRRSet |-> 8, NotAuth |-> 9,
     NotZone |-> 10, DSOTYPENI |-> 11, BADVERS |-> 16, BADKEY |-> 17,
     BADTIME |-> 18, BADMODE |-> 19, BADNAME |-> 20, BADALG |-> 21,
     BADTRUNC |-> 22, BADCOOKIE |-> 23]

\* a faulty try_from, an undeclared value mapped to the first variant found
try_from_lenient(enum, value) ==
    IF \E n \in DOMAIN enum : enum[n] = value
    THEN [ok |-> TRUE, v |-> CHOOSE n \in DOMAIN enum : enum[n] = value]
    ELSE [ok |-> TRUE, v |-> CHOOSE n \in DOMAIN enum : TRUE]

\* TryFrom<u16> generated by DnsEnum: the variant whose discriminant is value,
\* or Err(String)
try_from(enum, value) ==
    IF \E n \in DOMAIN enum : enum[n] = value
    THEN [ok |-> TRUE, v |-> CHOOSE n \in DOMAIN enum : enum[n] = value]
    ELSE [ok |-> FALSE, v |-> "none"]

-----------------------------------------------------------------------------
(* DNSPacketFlags and DNSPacketHeader.                                      *)

\* #[derive(Default)] on DNSPacketFlags: first variants, false, z = 0
DNSPacketFlags_default ==
    [packet_type |-> "Query", op_code |-> "Query",
     authorative_answer |-> FALSE, truncated |-> FALSE,
     recursion_desired |-> FALSE, recursion_available |-> FALSE,
     z |-> 0, authentic_data |-> FALSE, checking_disabled |-> FALSE,
     response_code |-> "NoError"]

\* The values of the struct.  z is a bool in rfc1035.rs and is used by the
\* codec only through numeric casts, so it is kept as the number the cast gives.
DNSPacketFlags ==
    [packet_type : DOMAIN PacketType, op_code : DOMAIN OpCode,
     authorative_answer : BOOLEAN, truncated : BOOLEAN,
     recursion_desired : BOOLEAN, recursion_available : BOOLEAN,
     z : {BoolAsU16(b) : b \in BOOLEAN},
     authentic_data : BOOLEAN, checking_disabled : BOOLEAN,
     response_code : DOMAIN ResponseCode]

\* DNSPacketFlags::to_network_bytes: the u16 it builds
FlagsWord(self) ==
    LET f0 == Shl16(PacketType[self.packet_type], 15)
        f1 == BitOr(f0, Shl16(OpCode[self.op_code], 11))
        f2 == BitOr(f1, Shl16(BoolAsU16(self.authorative_answer), 10))
        f3 == BitOr(f2, Shl16(BoolAsU16(self.truncated), 9))
        f4 == BitOr(f3, Shl16(BoolAsU16(self.recursion_desired), 8))
        f5 == BitOr(f4, Shl16(BoolAsU16(self.recursion_available), 7))
        f6 == BitOr(f5, Shl16(self.z, 4))
    IN  BitOr(f6, ResponseCode[self.response_code])

\* DNSPacketFlags::to_network_bytes: the octets appended and the count returned
DNSPacketFlags_to_network_bytes(self) ==
    [bytes |-> write_u16(FlagsWord(self)), length |-> 2]

\* DNSPacketFlags::from_network_bytes: the fields are assigned one by one and
\* `?` returns at the first failure, leaving the earlier assignments in place;
\* authentic_data and checking_disabled are never assigned
DNSPacketFlags_from_network_bytes(self, buf, p) ==
    LET r  == read_u16(buf, p)
        w  == r.v
        pt == try_from(PacketType, Shr(w, 15))
        oc == try_from(OpCode, LowBits(Shr(w, 11), 4))
        rc == try_from(ResponseCode, LowBits(w, 4))
        s1 == [self EXCEPT !.packet_type = pt.v]
        s2 == [s1 EXCEPT !.op_code = oc.v,
                         !.authorative_answer = (LowBits(Shr(w, 10), 1) = 1),
                         !.truncated = (LowBits(Shr(w, 9), 1) = 1),
                         !.recursion_desired = (LowBits(Shr(w, 8), 1) = 1),
                         !.recursion_available = (LowBits(Shr(w, 7), 1) = 1),
                         !.z = LowBits(Shr(w, 7), 3)]
    IN  IF ~r.ok THEN [self |-> self, position |-> r.position, result |-> "Io"]
        ELSE IF ~pt.ok THEN [self |-> self, position |-> r.position, result |-> "DNS"]
        ELSE IF ~oc.ok THEN [self |-> s1, position |-> r.position, result |-> "DNS"]
        ELSE IF ~rc.ok THEN [self |-> s2, position |-> r.position, result |-> "DNS"]
        ELSE [self |-> [s2 EXCEPT !.response_code = rc.v],
              position |-> r.position, result |-> "Ok"]

\* #[derive(Default)] on DNSPacketHeader
DNSPacketHeader_default ==
    [id |-> 0, flags |-> DNSPacketFlags_default,
     qd_count |-> 0, an_count |-> 0, ns_count |-> 0, ar_count |-> 0]

\* u16::to_network_bytes
u16_to_network_bytes(v) == [bytes |-> write_u16(v), length |-> 2]

\* The code DnsStruct generates for DNSPacketHeader::to_network_bytes: every
\* field in declaration order, length the sum of what the fields returned
DNSPacketHeader_to_network_bytes(self) ==
    LET e1 == u16_to_network_bytes(self.id)
        e2 == DNSPacketFlags_to_network_bytes(self.flags)
        e3 == u16_to_network_bytes(self.qd_count)
        e4 == u16_to_network_bytes(self.an_count)
        e5 == u16_to_network_bytes(self.ns_count)
        e6 == u16_to_network_bytes(self.ar_count)
    IN  [bytes  |-> e1.bytes \o e2.bytes \o e3.bytes \o e4.bytes \o e5.bytes \o e6.bytes,
         length |-> e1.length + e2.length + e3.length + e4.length + e5.length + e6.length]

\* The code DnsStruct generates for DNSPacketHeader::from_network_bytes: every
\* field in declaration order, `?` after each
DNSPacketHeader_from_network_bytes(self, buf, p) ==
    LET r1 == read_u16(buf, p)
        h1 == [self EXCEPT !.id = r1.v]
        r2 == DNSPacketFlags_from_network_bytes(self.flags, buf, r1.position)
        h2 == [h1 EXCEPT !.flags = r2.self]
        r3 == read_u16(buf, r2.position)
        h3 == [h2 EXCEPT !.qd_count = r3.v]
        r4 == read_u16(buf, r3.position)
        h4 == [h3 EXCEPT !.an_count = r4.v]
        r5 == read_u16(buf, r4.position)
        h5 == [h4 EXCEPT !.ns_count = r5.v]
        r6 == read_u16(buf, r5.position)
        h6 == [h5 EXCEPT !.ar_count = r6.v]
    IN  IF ~r1.ok THEN [self |-> self, position |-> r1.position, result |-> "Io"]
        ELSE IF r2.result # "Ok"
             THEN [self |-> h2, position |-> r2.position, result |-> r2.result]
        ELSE IF ~r3.ok THEN [self |-> h2, position |-> r3.position, result |-> "Io"]
        ELSE IF ~r4.ok THEN [self |-> h3, position |-> r4.position, result |-> "Io"]
        ELSE IF ~r5.ok THEN [self |-> h4, position |-> r5.position, result |-> "Io"]
        ELSE IF ~r6.ok THEN [self |-> h5, position |-> r6.position, result |-> "Io"]
        ELSE [self |-> h6, position |-> r6.position, result |-> "Ok"]

\* Where a Cursor stands after a read that failed with UnexpectedEof: the
\* standard library leaves it in place or moves it to the end of the slice,
\* depending on its version
AfterRead(buf, r) ==
    IF r.result = "Io" THEN {r.position, Len(buf)} ELSE {r.position}

-----------------------------------------------------------------------------
(* Flags round trip: a DNSPacketFlags value is encoded into an empty        *)
(* Vec<u8>, and the octets are decoded into DNSPacketFlags::default().       *)

InitCommon ==
    /\ result = "none"
    /\ written = 0
    /\ flags = DNSPacketFlags_default
    /\ header = DNSPacketHeader_default
    /\ out = <<>>
    /\ stack = <<>>
    /\ labels = <<>>
    /\ ret = 0
    /\ discarded = "none"
    /\ cs = [length |-> 0, data |-> <<>>]
    /\ target = 0

\* no primitive codec is under way
NoPrimitive == prim = "none" /\ v0 = 0 /\ number = 0

\* no packet codec is under way
NoPacket == packet0 = "none" /\ question = "none"

\* no enum conversion is under way
NoEnum ==
    enum_name = "none" /\ variant0 = "none" /\ discriminant = 0 /\ variant = "none"

\* no query is being built
NoQuery == program = "none" /\ no_opt = FALSE /\ query = "none" /\ pushes = 0

\* no answer has been received
NoReceive ==
    /\ decoded = [questions |-> 0, answers |-> 0, authorities |-> 0, additionals |-> 0]
    /\ exit_code = "none"

\* the client has not started
NoClient ==
    /\ text = <<>>
    /\ events = <<>>
    /\ record = "none"
    /\ elements = <<>>
    /\ rounds = 0
    /\ status = -1

InitOther == NoPrimitive /\ NoPacket /\ NoEnum /\ NoQuery /\ NoReceive /\ NoClient

InitBesidesPrim == NoPacket /\ NoEnum /\ NoQuery /\ NoReceive /\ NoClient

InitBesidesPacket == NoPrimitive /\ NoEnum /\ NoQuery /\ NoReceive /\ NoClient

InitBesidesEnum == NoPrimitive /\ NoPacket /\ NoQuery /\ NoReceive /\ NoClient

InitBesidesQuery == NoPrimitive /\ NoPacket /\ NoEnum /\ NoReceive /\ NoClient

InitBesidesReceive == NoPrimitive /\ NoEnum /\ NoQuery /\ NoClient

\* no DomainName is under way
NoName == name0 = <<>> /\ pos = 0 /\ index = 0

InitFlags ==
    /\ InitCommon
    /\ InitOther
    /\ pc = "flags_encode"
    /\ flags0 \in DNSPacketFlags
    /\ buffer = <<>>
    /\ position = 0
    /\ NoName

FlagsToNetworkBytes ==
    /\ pc = "flags_encode"
    /\ LET e == DNSPacketFlags_to_network_bytes(flags0)
       IN  /\ buffer' = buffer \o e.bytes
           /\ written' = e.length
    /\ pc' = "flags_decode"
    /\ UNCHANGED <<position, result, flagVars, header, out, nameVars, scalarVars, otherVars>>

FlagsFromNetworkBytes ==
    /\ pc = "flags_decode"
    /\ LET r == DNSPacketFlags_from_network_bytes(flags, buffer, position)
       IN  /\ flags' = r.self
           /\ result' = r.result
           /\ position' \in AfterRead(buffer, r)
    /\ pc' = "flags_done"
    /\ UNCHANGED <<buffer, written, flags0, header, out, nameVars, scalarVars, otherVars>>

NextFlags == FlagsToNetworkBytes \/ FlagsFromNetworkBytes

SpecFlags == InitFlags /\ [][NextFlags]_vars

-----------------------------------------------------------------------------
(* Header: 12 octets off the wire are decoded into                          *)
(* DNSPacketHeader::default(), and the header is encoded again              *)
(* (tests::dns_packet_header).                                              *)

\* the headers fed to the decoder: every 16-bit flags word between the id and
\* the counts of the two headers the tests use, and the header of
\* tests::dns_packet_header cut short at every length
HeaderFixtures ==
    { <<write_u16(30342), write_u16(1) \o write_u16(8) \o write_u16(0) \o write_u16(1)>>,
      <<write_u16(4660), write_u16(4660) \o write_u16(4660) \o write_u16(4660) \o write_u16(4660)>> }

HeaderBuffers ==
    { f[1] \o write_u16(w) \o f[2] : f \in HeaderFixtures, w \in 0 .. 2^16 - 1 }
    \cup { SubSeq(write_u16(30342) \o write_u16(33184) \o write_u16(1) \o write_u16(8)
                  \o write_u16(0) \o write_u16(1), 1, n) : n \in 0 .. 11 }

InitHeader ==
    /\ InitCommon
    /\ InitOther
    /\ pc = "header_decode"
    /\ flags0 = DNSPacketFlags_default
    /\ buffer \in HeaderBuffers
    /\ position = 0
    /\ NoName

HeaderFromNetworkBytes ==
    /\ pc = "header_decode"
    /\ LET r == DNSPacketHeader_from_network_bytes(header, buffer, position)
       IN  /\ header' = r.self
           /\ result' = r.result
           /\ position' \in AfterRead(buffer, r)
           /\ pc' = IF r.result = "Ok" THEN "header_encode" ELSE "header_failed"
    /\ UNCHANGED <<buffer, written, flagVars, out, nameVars, scalarVars, otherVars>>

HeaderToNetworkBytes ==
    /\ pc = "header_encode"
    /\ LET e == DNSPacketHeader_to_network_bytes(header)
       IN  /\ out' = out \o e.bytes
           /\ written' = e.length
    /\ pc' = "header_done"
    /\ UNCHANGED <<buffer, position, result, flagVars, header, nameVars, scalarVars, otherVars>>

NextHeader == HeaderFromNetworkBytes \/ HeaderToNetworkBytes

SpecHeader == InitHeader /\ [][NextHeader]_vars

-----------------------------------------------------------------------------
(* Claims about the flags word and the header.                              *)

\* C1: for every DNSPacketFlags value with a declared 4-bit response code,
\* decoding the 2 octets produced by encoding it succeeds and yields a value
\* equal to it in every field, z, authentic_data and checking_disabled included.
C1_FlagsRoundTrip ==
    (pc = "flags_done" /\ ResponseCode[flags0.response_code] < 2^4)
        => (result = "Ok" /\ flags = flags0)

\* the flags word of a 12-octet header on the wire
WireFlags(buf) == buf[3] * 256 + buf[4]

\* bit n of the word w, bit 0 the least significant
Bit(w, n) == (w \div 2^n) % 2

\* a header of 12 octets whose opcode and rcode fields hold declared values
DeclaredHeader(buf) ==
    /\ Len(buf) = 12
    /\ \E n \in DOMAIN OpCode : OpCode[n] = (WireFlags(buf) \div 2^11) % 2^4
    /\ \E n \in DOMAIN ResponseCode : ResponseCode[n] = WireFlags(buf) % 2^4

\* C2: the flags decoder sets each field from its own protocol bit position:
\* QR = bit 15, opcode = bits 14..11, AA = bit 10, TC = bit 9, RD = bit 8,
\* RA = bit 7, Z = bit 6, AD = bit 5, CD = bit 4, rcode = bits 3..0.
C2_FlagsBitPositions ==
    (pc # "header_decode" /\ DeclaredHeader(buffer)) =>
        LET w == WireFlags(buffer)
        IN  /\ result = "Ok"
            /\ PacketType[header.flags.packet_type] = Bit(w, 15)
            /\ OpCode[header.flags.op_code] = (w \div 2^11) % 2^4
            /\ header.flags.authorative_answer = (Bit(w, 10) = 1)
            /\ header.flags.truncated = (Bit(w, 9) = 1)
            /\ header.flags.recursion_desired = (Bit(w, 8) = 1)
            /\ header.flags.recursion_available = (Bit(w, 7) = 1)
            /\ header.flags.z = Bit(w, 6)
            /\ header.flags.authentic_data = (Bit(w, 5) = 1)
            /\ header.flags.checking_disabled = (Bit(w, 4) = 1)
            /\ ResponseCode[header.flags.response_code] = w % 2^4

\* C3: decoding a 12-octet header with declared opcode and rcode and encoding
\* the result again yields the same 12 octets and reports 12 bytes written.
C3_HeaderReencode ==
    /\ (pc = "header_failed" => ~DeclaredHeader(buffer))
    /\ (pc = "header_done" => (out = buffer /\ written = 12))

-----------------------------------------------------------------------------
(* Domain names, character strings and u16 values.                          *)

\* util::is_pointer
is_pointer(x) == x >= 192

\* a UTF-8 continuation octet
Continuation(b) == b >= 128 /\ b <= 191

\* std::str::from_utf8(bytes).is_ok()
RECURSIVE from_utf8_is_ok(_)
from_utf8_is_ok(bytes) ==
    IF bytes = <<>> THEN TRUE
    ELSE LET b == bytes[1]
             n == Len(bytes)
         IN  IF b < 128 THEN from_utf8_is_ok(Tail(bytes))
             ELSE IF b >= 194 /\ b <= 223
             THEN /\ n >= 2
                  /\ Continuation(bytes[2])
                  /\ from_utf8_is_ok(SubSeq(bytes, 3, n))
             ELSE IF b >= 224 /\ b <= 239
             THEN /\ n >= 3
                  /\ Continuation(bytes[2])
                  /\ (b = 224 => bytes[2] >= 160)
                  /\ (b = 237 => bytes[2] <= 159)
                  /\ Continuation(bytes[3])
                  /\ from_utf8_is_ok(SubSeq(bytes, 4, n))
             ELSE IF b >= 240 /\ b <= 244
             THEN /\ n >= 4
                  /\ Continuation(bytes[2])
                  /\ (b = 240 => bytes[2] >= 144)
                  /\ (b = 244 => bytes[2] <= 143)
                  /\ Continuation(bytes[3])
                  /\ Continuation(bytes[4])
                  /\ from_utf8_is_ok(SubSeq(bytes, 5, n))
             ELSE FALSE

\* CharacterString::from(&str): the length is the byte length cast to u8
CharacterString_from(s) == [length |-> Len(s) % 2^8, data |-> s]

\* a faulty Label, the label's range one octet short
LabelOneShort(s) ==
    [type |-> "Label", label |-> CharacterString_from(SubSeq(s, 1, Len(s) - 1))]

\* LabelType::Label(CharacterString::from(s)) and LabelType::Root
Label(s) == [type |-> "Label", label |-> CharacterString_from(s)]

Root == [type |-> "Root", label |-> CharacterString_from(<<>>)]

\* DomainName::to_network_bytes: the for loop over the labels, acc the octets
\* appended and the length counted so far
RECURSIVE ForLabelsShortCount(_, _)
\* a faulty loop, the length octets left out of the count
ForLabelsShortCount(ls, acc) ==
    IF ls = <<>> THEN acc
    ELSE LET label == Head(ls)
         IN  ForLabelsShortCount(Tail(ls),
                       [bytes  |-> acc.bytes \o <<Len(label) % 2^8>> \o label,
                        length |-> acc.length + Len(label)])

RECURSIVE ForLabels(_, _)
ForLabels(ls, acc) ==
    IF ls = <<>> THEN acc
    ELSE LET label == Head(ls)
         IN  ForLabels(Tail(ls),
                       [bytes  |-> acc.bytes \o <<Len(label) % 2^8>> \o label,
                        length |-> acc.length + (Len(label) + 1)])

DomainName_to_network_bytes(self) ==
    LET loop == ForLabels(self, [bytes |-> <<>>, length |-> 0])
    IN  [bytes |-> loop.bytes \o <<0>>, length |-> loop.length + 1]

\* the offset a pointer holds: ((u16::from_be_bytes(ptr) << 2) >> 2) as usize
PointerOffset(b0, b1) == Shr(Shl16(b0 * 256 + b1, 2), 2)

\* the positions of the suspended from_position frames
Suspended == { stack[i] : i \in DOMAIN stack }

\* tests::domain_name_from_position, PACKET
PACKET ==
    << 118, 134, 129, 160, 0, 1, 0, 8, 0, 0, 0, 1, 2, 104, 107, 0,
       0, 2, 0, 1, 192, 12, 0, 2, 0, 1, 0, 0, 84, 96, 0, 14,
       1, 122, 5, 104, 107, 105, 114, 99, 3, 110, 101, 116, 192, 12, 192, 12,
       0, 2, 0, 1, 0, 0, 84, 96, 0, 4, 1, 100, 192, 34, 192, 12,
       0, 2, 0, 1, 0, 0, 84, 96, 0, 4, 1, 120, 192, 34, 192, 12,
       0, 2, 0, 1, 0, 0, 84, 96, 0, 4, 1, 117, 192, 34, 192, 12,
       0, 2, 0, 1, 0, 0, 84, 96, 0, 4, 1, 99, 192, 34, 192, 12,
       0, 2, 0, 1, 0, 0, 84, 96, 0, 4, 1, 116, 192, 34, 192, 12,
       0, 2, 0, 1, 0, 0, 84, 96, 0, 4, 1, 118, 192, 34, 192, 12,
       0, 2, 0, 1, 0, 0, 84, 96, 0, 4, 1, 121, 192, 34, 0, 0,
       41, 2, 0, 0, 0, 0, 0, 0, 0 >>

\* SAMPLE_DOMAIN as the labels of a DomainName, and SAMPLE_SLICE
SAMPLE_DOMAIN == << <<119, 119, 119>>, <<103, 111, 111, 103, 108, 101>>, <<105, 101>> >>

SAMPLE_SLICE == <<3, 119, 119, 119, 6, 103, 111, 111, 103, 108, 101, 2, 105, 101, 0>>

-----------------------------------------------------------------------------
(* The inputs of the codecs.                                                *)

MaxBufLen == 4

MaxLabelLen == 2

MaxLabels == 2

\* the octets the short buffers are made of: the terminator (and offset 0),
\* two label lengths (and offsets), a letter, a reserved length that is also
\* no UTF-8 lead octet, and the first octet of a pointer
NameOctets == {0, 1, 2, 97, 128, 192}

\* n times the octet b
Repeat(b, n) == [i \in 1 .. n |-> b]

\* every buffer of at most MaxBufLen octets, the packet of
\* tests::domain_name_from_position, and a buffer holding a 64-octet "label"
NameBuffers ==
    UNION { [1 .. n -> NameOctets] : n \in 0 .. MaxBufLen }
    \cup { PACKET, <<64>> \o Repeat(97, 64) \o <<0>> }

\* the labels of the names handed to the encoder
LabelOctets == {97, 98}

ShortLabels == UNION { [1 .. n -> LabelOctets] : n \in 1 .. MaxLabelLen }

\* every name of at most MaxLabels short labels; www.google.ie; a name with a
\* two-octet letter; names with the longest label and of the longest encoded
\* length (255); a name with a 64-octet label
Names ==
    UNION { [1 .. n -> ShortLabels] : n \in 0 .. MaxLabels }
    \cup { SAMPLE_DOMAIN,
           << <<195, 169>>, <<97>> >>,
           << Repeat(97, 63) >>,
           << Repeat(97, 63), Repeat(98, 63), Repeat(97, 63), Repeat(98, 61) >>,
           << Repeat(97, 64), <<98>> >> }

\* one of: a name decoded at a position of a buffer; a name encoded into an
\* empty Vec<u8> and decoded from position 0 of it; a character string or a
\* u16 decoded from a Cursor over a buffer
InitCodec ==
    /\ InitCommon
    /\ InitOther
    /\ flags0 = DNSPacketFlags_default
    /\ \/ /\ pc = "name_loop"
          /\ buffer \in NameBuffers
          /\ pos \in 0 .. Len(buffer)
          /\ index = pos
          /\ name0 = <<>>
          /\ position = 0
       \/ /\ pc = "name_encode"
          /\ buffer = <<>>
          /\ name0 \in Names
          /\ pos = 0
          /\ index = 0
          /\ position = 0
       \/ /\ pc \in {"cs_decode", "u16_decode"}
          /\ buffer \in NameBuffers
          /\ position \in 0 .. Len(buffer)
          /\ NoName

-----------------------------------------------------------------------------
(* DomainName::to_network_bytes, then from_position(0, ..) on its octets.   *)

DomainNameToNetworkBytes ==
    /\ pc = "name_encode"
    /\ LET e == DomainName_to_network_bytes(name0)
       IN  /\ buffer' = buffer \o e.bytes
           /\ written' = e.length
    /\ pc' = "name_loop"
    /\ UNCHANGED <<position, result, flagVars, header, out, nameVars, scalarVars, otherVars>>

-----------------------------------------------------------------------------
(* DomainName::from_position, one action per pass of its loop.  index is    *)
(* the local of the running frame; a frame that follows a pointer is        *)
(* suspended on the stack until the nested call returns.                    *)

\* the running frame returns: to the caller of the outermost call, or into
\* the `let _ =` of the frame that called it
Return(kind, v) ==
    IF stack = <<>>
    THEN /\ pc' = "name_done"
         /\ result' = kind
         /\ ret' = v
         /\ UNCHANGED discarded
    ELSE /\ pc' = "name_return"
         /\ discarded' = kind
         /\ UNCHANGED <<result, ret>>

\* buffer[index] == 0: break, push Root, Ok(index + 1)
NameSentinel ==
    /\ pc = "name_loop"
    /\ index < Len(buffer)
    /\ buffer[index + 1] = 0
    /\ labels' = Append(labels, Root)
    /\ Return("Ok", index + 1)
    /\ UNCHANGED <<buffer, position, written, flagVars, header, out, name0, pos,
                   index, stack, scalarVars, otherVars>>

\* is_pointer(buffer[index]): the nested call starts at the offset
NamePointer ==
    /\ pc = "name_loop"
    /\ index + 1 < Len(buffer)
    /\ is_pointer(buffer[index + 1])
    /\ index \notin Suspended
    /\ stack' = Append(stack, index)
    /\ index' = PointerOffset(buffer[index + 1], buffer[index + 2])
    /\ UNCHANGED <<pc, buffer, position, result, written, flagVars, header, out,
                   name0, pos, labels, ret, discarded, scalarVars, otherVars>>

\* the pointer at index is followed while a frame suspended at this very
\* pointer waits for it: the calls repeat without end, each in a new frame,
\* and the recursion is only stopped by the end of the stack
NameRecursion ==
    /\ pc = "name_loop"
    /\ index + 1 < Len(buffer)
    /\ is_pointer(buffer[index + 1])
    /\ index \in Suspended
    /\ pc' = "name_overflow"
    /\ UNCHANGED <<buffer, position, result, written, flagVars, header, out,
                   nameVars, scalarVars, otherVars>>

\* a length octet: the label is validated as UTF-8 and pushed
NameLabel ==
    /\ pc = "name_loop"
    /\ index < Len(buffer)
    /\ buffer[index + 1] # 0
    /\ ~is_pointer(buffer[index + 1])
    /\ LET size == buffer[index + 1]
       IN  /\ index + size + 1 <= Len(buffer)
           /\ LET label == Slice(buffer, index + 1, size)
              IN  IF from_utf8_is_ok(label)
                  THEN /\ labels' = Append(labels, Label(label))
                       /\ index' = index + size + 1
                       /\ UNCHANGED <<pc, result, ret, discarded>>
                  ELSE /\ Return("Utf8", ret)
                       /\ UNCHANGED <<labels, index>>
    /\ UNCHANGED <<buffer, position, written, flagVars, header, out, name0, pos,
                   stack, scalarVars, otherVars>>

\* buffer[index], buffer[index + 1] or the label's range is out of bounds:
\* the index expression panics
NamePanic ==
    /\ pc = "name_loop"
    /\ \/ index >= Len(buffer)
       \/ /\ index < Len(buffer)
          /\ is_pointer(buffer[index + 1])
          /\ index + 1 >= Len(buffer)
       \/ /\ index < Len(buffer)
          /\ ~is_pointer(buffer[index + 1])
          /\ index + buffer[index + 1] + 1 > Len(buffer)
    /\ pc' = "name_panic"
    /\ UNCHANGED <<buffer, position, result, written, flagVars, header, out,
                   nameVars, scalarVars, otherVars>>

\* the nested call has returned, its Result is dropped, and the frame that
\* made it returns Ok(index + 2)
NameReturn ==
    /\ pc = "name_return"
    /\ LET caller == stack[Len(stack)]
       IN  /\ stack' = SubSeq(stack, 1, Len(stack) - 1)
           /\ index' = caller
           /\ IF Len(stack) = 1
              THEN /\ pc' = "name_done"
                   /\ result' = "Ok"
                   /\ ret' = caller + 2
                   /\ UNCHANGED discarded
              ELSE /\ discarded' = "Ok"
                   /\ UNCHANGED <<pc, result, ret>>
    /\ UNCHANGED <<buffer, position, written, flagVars, header, out, name0, pos,
                   labels, scalarVars, otherVars>>

-----------------------------------------------------------------------------
(* CharacterString::from_network_bytes and u16::from_network_bytes.         *)

\* the length is read at offset 0 of the slice, the cursor is moved to 12,
\* and the range 1 .. size + 1 of the slice is validated as UTF-8
CharacterStringFromNetworkBytes ==
    /\ pc = "cs_decode"
    /\ IF Len(buffer) = 0
       THEN /\ pc' = "cs_panic"
            /\ UNCHANGED <<position, result, cs>>
       ELSE LET size == buffer[1]
            IN  /\ position' = 12
                /\ IF size + 1 > Len(buffer)
                   THEN /\ pc' = "cs_panic"
                        /\ UNCHANGED <<result, cs>>
                   ELSE /\ pc' = "cs_done"
                        /\ IF from_utf8_is_ok(Slice(buffer, 1, size))
                           THEN /\ cs' = CharacterString_from(Slice(buffer, 1, size))
                                /\ result' = "Ok"
                           ELSE /\ result' = "Utf8"
                                /\ UNCHANGED cs
    /\ UNCHANGED <<buffer, written, flagVars, header, out, nameVars, target, otherVars>>

U16FromNetworkBytes ==
    /\ pc = "u16_decode"
    /\ LET r == read_u16(buffer, position)
       IN  /\ target' = IF r.ok THEN r.v ELSE target
           /\ result' = IF r.ok THEN "Ok" ELSE "Io"
           /\ position' \in IF r.ok THEN {r.position} ELSE {position, Len(buffer)}
    /\ pc' = "u16_done"
    /\ UNCHANGED <<buffer, written, flagVars, header, out, nameVars, cs, otherVars>>

NextCodec ==
    \/ DomainNameToNetworkBytes
    \/ NameSentinel
    \/ NamePointer
    \/ NameRecursion
    \/ NameLabel
    \/ NamePanic
    \/ NameReturn
    \/ CharacterStringFromNetworkBytes
    \/ U16FromNetworkBytes

SpecCodec == InitCodec /\ [][NextCodec]_vars

-----------------------------------------------------------------------------
(* Claims about the domain-name codec.                                      *)

\* a compression pointer stands at position p of buf, both octets inside
PointerAt(buf, p) == p + 1 < Len(buf) /\ buf[p + 1] >= 192

\* the 14-bit offset of the pointer at position p
OffsetAt(buf, p) == (buf[p + 1] % 64) * 256 + buf[p + 2]

\* the errors a from_position frame can end with
IsError(kind) == kind \notin {"none", "Ok"}

\* C4: when the name decoder meets a pointer at position p whose 14-bit offset
\* q is at or after p (q = p included), it does not follow the pointer: the
\* call ends there with the error MalformedName.
C4_ForwardPointerRejected ==
    [][ (/\ pc = "name_loop"
         /\ PointerAt(buffer, index)
         /\ OffsetAt(buffer, index) >= index)
        => /\ stack' = stack
           /\ IF stack = <<>>
              THEN pc' = "name_done" /\ result' = "MalformedName"
              ELSE pc' = "name_return" /\ discarded' = "MalformedName" ]_vars

\* C5: name decoding terminates for every buffer and every start position: no
\* chain or cycle of pointers makes from_position call itself without end.
C5_DecodingTerminates == pc # "name_overflow"

\* The reading of a well-formed name at position p of buf, with the pointers
\* in seen already followed: labels of 1..63 octets inside the buffer, ended
\* by a zero octet or by one pointer to an earlier position where a
\* well-formed name stands.
RECURSIVE WellFormedName(_, _, _)
WellFormedName(buf, p, seen) ==
    LET no == [ok |-> FALSE, labels |-> <<>>, next |-> 0]
    IN  IF p >= Len(buf) THEN no
        ELSE IF buf[p + 1] = 0
        THEN [ok |-> TRUE, labels |-> <<Root>>, next |-> p + 1]
        ELSE IF buf[p + 1] >= 192
        THEN IF PointerAt(buf, p) /\ OffsetAt(buf, p) < p /\ p \notin seen
             THEN LET pointee == WellFormedName(buf, OffsetAt(buf, p), seen \cup {p})
                  IN  IF pointee.ok
                      THEN [ok |-> TRUE, labels |-> pointee.labels, next |-> p + 2]
                      ELSE no
             ELSE no
        ELSE IF buf[p + 1] <= 63 /\ p + 1 + buf[p + 1] <= Len(buf)
        THEN LET rest == WellFormedName(buf, p + 1 + buf[p + 1], seen)
             IN  IF rest.ok
                 THEN [ok |-> TRUE,
                       labels |-> << [type |-> "Label",
                                      label |-> [length |-> buf[p + 1],
                                                 data |-> SubSeq(buf, p + 2, p + 1 + buf[p + 1])]] >>
                                  \o rest.labels,
                       next |-> rest.next]
                 ELSE no
        ELSE no

\* C6: decoding a well-formed name at position pos returns Ok(next) and leaves
\* in labels the labels read at pos in order, then the labels of the pointee
\* when the name ends in a pointer, then a single Root; next is just past the
\* zero octet, or just past the two octets of the pointer.
C6_WellFormedNameDecoded ==
    LET w == WellFormedName(buffer, pos, {})
    IN  (pc \in {"name_loop", "name_return", "name_done", "name_panic", "name_overflow"}
         /\ w.ok)
            => /\ pc \notin {"name_panic", "name_overflow"}
               /\ pc = "name_done" =>
                      (result = "Ok" /\ labels = w.labels /\ ret = w.next)

\* C7: a length octet with top bits 01 or 10 (64..191) ends the call with an
\* error; it is taken neither as a label length nor as a pointer.
C7_ReservedLengthRejected ==
    [][ (/\ pc = "name_loop"
         /\ index < Len(buffer)
         /\ buffer[index + 1] \in 64 .. 191)
        => /\ labels' = labels
           /\ stack' = stack
           /\ IF stack = <<>>
              THEN pc' = "name_done" /\ IsError(result')
              ELSE pc' = "name_return" /\ IsError(discarded') ]_vars

\* C8: a buffer that ends before a codec has finished makes the decoder
\* return an error value (Io with UnexpectedEof is the short-read error of
\* the code): no decoder indexes outside the buffer and aborts.
C8_ShortReadNoAbort ==
    /\ pc \notin {"name_panic", "cs_panic"}
    /\ (pc = "u16_done" /\ Len(buffer) < 2) => result = "Io"

\* the octets a name takes on the wire
RECURSIVE EncodedLength(_)
EncodedLength(n) ==
    IF n = <<>> THEN 1 ELSE Len(Head(n)) + 1 + EncodedLength(Tail(n))

\* a name of labels of 1..63 octets, of at most 255 octets on the wire
ValidName(n) ==
    /\ \A i \in DOMAIN n : Len(n[i]) \in 1 .. 63
    /\ EncodedLength(n) <= 255

\* C9: for a name of labels of 1..63 octets and at most 255 octets encoded,
\* decoding the encoder's octets from position 0 succeeds, yields the same
\* labels followed by Root, and returns the count the encoder returned.
C9_NameRoundTrip ==
    (written > 0 /\ ValidName(name0))
        => /\ pc \notin {"name_panic", "name_overflow"}
           /\ pc = "name_done" =>
                  /\ result = "Ok"
                  /\ ret = written
                  /\ Len(labels) = Len(name0) + 1
                  /\ labels[Len(labels)].type = "Root"
                  /\ \A i \in DOMAIN name0 :
                         /\ labels[i].type = "Label"
                         /\ labels[i].label.data = name0[i]
                         /\ labels[i].label.length = Len(name0[i])

\* where the length octet of label i of the name n stands on the wire
RECURSIVE LabelOffset(_, _)
LabelOffset(n, i) ==
    IF i = 1 THEN 0 ELSE LabelOffset(n, i - 1) + Len(n[i - 1]) + 1

C9_Witness ==
    /\ pc = "name_done"
    /\ name0 = SAMPLE_DOMAIN
    /\ result = "Ok"
    /\ ret = 15
    /\ Len(labels) = 4

-----------------------------------------------------------------------------
(* The primitives u8, u16, u32 and i32 (network_order/primitive.rs).        *)

\* the width in octets of a primitive type
Width == [u8 |-> 1, u16 |-> 2, u32 |-> 4, i32 |-> 4]

\* A primitive value is held as the two 16-bit halves of its 32 bits, hi the
\* most significant (0 for u8 and u16); an i32 is held in two's complement,
\* negative when hi >= 2^15.
Halves(hi, lo) == [hi |-> hi, lo |-> lo]

\* a faulty write_u32, the least significant half first
write_u32_swapped(v) == write_u16(v.lo) \o write_u16(v.hi)

\* WriteBytesExt::write_u32::<BigEndian> and write_i32::<BigEndian>
write_u32(v) == write_u16(v.hi) \o write_u16(v.lo)

\* to_network_bytes of u8, u16, u32 and i32: the octets appended and the
\* usize returned
primitive_to_network_bytes(type, v) ==
    CASE type = "u8"  -> [bytes |-> <<v.lo>>, length |-> 1]
      [] type = "u16" -> u16_to_network_bytes(v.lo)
      [] type = "u32" -> [bytes |-> write_u32(v), length |-> 4]
      [] type = "i32" -> [bytes |-> write_u32(v), length |-> 2]

\* from_network_bytes of u8, u16, u32 and i32 on a Cursor at position p:
\* read_u8, read_u16, read_u32 or read_i32, UnexpectedEof when the octets
\* left are fewer than the width
primitive_from_network_bytes(type, buf, p) ==
    IF p + Width[type] > Len(buf)
    THEN [ok |-> FALSE, v |-> Halves(0, 0), position |-> p]
    ELSE CASE type = "u8"  ->
                [ok |-> TRUE, v |-> Halves(0, buf[p + 1]), position |-> p + 1]
           [] type = "u16" ->
                [ok |-> TRUE, v |-> Halves(0, read_u16(buf, p).v), position |-> p + 2]
           [] type \in {"u32", "i32"} ->
                [ok |-> TRUE,
                 v |-> Halves(read_u16(buf, p).v, read_u16(buf, p + 2).v),
                 position |-> p + 4]

\* the octets the 32-bit samples are made of
SampleOctets == {0, 1, 18, 52, 127, 128, 255}

SampleHalves == { a * 256 + b : a, b \in SampleOctets }

\* the values handed to the encoders: every u8, every u16, and the u32 and
\* i32 whose octets are sample octets
PrimitiveValues(type) ==
    CASE type = "u8"  -> { Halves(0, n) : n \in 0 .. 2^8 - 1 }
      [] type = "u16" -> { Halves(0, n) : n \in 0 .. 2^16 - 1 }
      [] type \in {"u32", "i32"} -> { Halves(h, l) : h, l \in SampleHalves }

\* a primitive is encoded into an empty Vec<u8>; the octets are then decoded
\* from a Cursor at position 0 into a default (0) value
InitPrimitive ==
    /\ InitCommon
    /\ InitBesidesPrim
    /\ flags0 = DNSPacketFlags_default
    /\ NoName
    /\ pc = "prim_encode"
    /\ buffer = <<>>
    /\ position = 0
    /\ prim \in DOMAIN Width
    /\ v0 \in PrimitiveValues(prim)
    /\ number = Halves(0, 0)

PrimitiveToNetworkBytes ==
    /\ pc = "prim_encode"
    /\ LET e == primitive_to_network_bytes(prim, v0)
       IN  /\ buffer' = buffer \o e.bytes
           /\ written' = e.length
    /\ pc' = "prim_decode"
    /\ UNCHANGED <<position, result, flagVars, header, out, nameVars, scalarVars,
                   primVars, besidesPrim>>

PrimitiveFromNetworkBytes ==
    /\ pc = "prim_decode"
    /\ LET r == primitive_from_network_bytes(prim, buffer, position)
       IN  /\ number' = IF r.ok THEN r.v ELSE number
           /\ result' = IF r.ok THEN "Ok" ELSE "Io"
           /\ position' \in IF r.ok THEN {r.position} ELSE {position, Len(buffer)}
    /\ pc' = "prim_done"
    /\ UNCHANGED <<buffer, written, flagVars, header, out, nameVars, scalarVars,
                   prim, v0, besidesPrim>>

NextPrimitive == PrimitiveToNetworkBytes \/ PrimitiveFromNetworkBytes

SpecPrimitive == InitPrimitive /\ [][NextPrimitive]_vars

-----------------------------------------------------------------------------
(* Claims about the primitives.                                             *)

\* C11: the number an encoder returns is the number of octets the call
\* appended to the buffer.
C11_CountIsOctetsAppended ==
    pc \in {"prim_decode", "prim_done"} => written = Len(buffer)

\* octet i (1 the first) of the big-endian form, w octets wide, of a
\* primitive value
BigEndianOctet(v, w, i) ==
    IF w = 4 /\ i <= 2 THEN (v.hi \div 256^(2 - i)) % 256
    ELSE (v.lo \div 256^(w - i)) % 256

\* C13: encoding a u8, u16, u32 or i32 produces its big-endian octets (0x1234
\* as u16 gives 0x12 0x34), and decoding them yields the value, the cursor
\* advanced by the width of the type.
C13_PrimitiveRoundTrip ==
    LET w == CASE prim = "u8" -> 1 [] prim = "u16" -> 2 [] OTHER -> 4
    IN  /\ pc \in {"prim_decode", "prim_done"} =>
               /\ Len(buffer) = w
               /\ \A i \in 1 .. w : buffer[i] = BigEndianOctet(v0, w, i)
               /\ (prim = "u16" /\ v0.lo = 4660) => buffer = <<18, 52>>
        /\ pc = "prim_done" =>
               (result = "Ok" /\ number = v0 /\ position = w)

\* 0x80000001 (the i32 -2147483647) has been encoded as 80 00 00 01 and
\* decoded again
C13_Witness ==
    /\ pc = "prim_done"
    /\ prim = "i32"
    /\ v0 = [hi |-> 32768, lo |-> 1]
    /\ buffer = <<128, 0, 0, 1>>
    /\ number = v0
    /\ position = 4

-----------------------------------------------------------------------------
(* QType, QClass, DNSQuestion and DNSPacket<DNSQuestion>                    *)
(* (tests::dnspacket_to_network).                                           *)

\* the variants of QType with their discriminants, in declaration order
QTypeVariants ==
    <<
      <<"A", 1>>, <<"NS", 2>>, <<"MD", 3>>, <<"MF", 4>>, <<"CNAME", 5>>,
      <<"SOA", 6>>, <<"MB", 7>>, <<"MG", 8>>, <<"MR", 9>>, <<"NULL", 10>>,
      <<"WKS", 11>>, <<"PTR", 12>>, <<"HINFO", 13>>, <<"MINFO", 14>>,
      <<"MX", 15>>, <<"TXT", 16>>, <<"RP", 17>>, <<"AFSDB", 18>>,
      <<"X25", 19>>, <<"ISDN", 20>>, <<"RT", 21>>, <<"NSAP", 22>>,
      <<"NSAPPTR", 23>>, <<"SIG", 24>>, <<"KEY", 25>>, <<"PX", 26>>,
      <<"GPOS", 27>>, <<"AAAA", 28>>, <<"LOC", 29>>, <<"NXT", 30>>,
      <<"EID", 31>>, <<"NIMLOC", 32>>, <<"SRV", 33>>, <<"ATMA", 34>>,
      <<"NAPTR", 35>>, <<"KX", 36>>, <<"CERT", 37>>, <<"A6", 38>>,
      <<"DNAME", 39>>, <<"SINK", 40>>, <<"OPT", 41>>, <<"APL", 42>>,
      <<"DS", 43>>, <<"SSHFP", 44>>, <<"IPSECKEY", 45>>, <<"RRSIG", 46>>,
      <<"NSEC", 47>>, <<"DNSKEY", 48>>, <<"DHCID", 49>>, <<"NSEC3", 50>>,
      <<"NSEC3PARAM", 51>>, <<"TLSA", 52>>, <<"SMIMEA", 53>>,
      <<"Unassigned", 54>>, <<"HIP", 55>>, <<"NINFO", 56>>, <<"RKEY", 57>>,
      <<"TALINK", 58>>, <<"CDS", 59>>, <<"CDNSKEY", 60>>,
      <<"OPENPGPKEY", 61>>, <<"CSYNC", 62>>, <<"ZONEMD", 63>>,
      <<"SVCB", 64>>, <<"HTTPS", 65>>, <<"SPF", 99>>, <<"UINFO", 100>>,
      <<"UID", 101>>, <<"GID", 102>>, <<"UNSPEC", 103>>, <<"NID", 104>>,
      <<"L32", 105>>, <<"L64", 106>>, <<"LP", 107>>, <<"EUI48", 108>>,
      <<"EUI64", 109>>, <<"TKEY", 249>>, <<"TSIG", 250>>, <<"IXFR", 251>>,
      <<"AXFR", 252>>, <<"MAILB", 253>>, <<"MAILA", 254>>, <<"ANY", 255>>,
      <<"URI", 256>>, <<"CAA", 257>>, <<"AVC", 258>>, <<"DOA", 259>>,
      <<"AMTRELAY", 260>>, <<"TA", 32768>>, <<"DLV", 32769>>
    >>

\* the variants of QClass with their discriminants, in declaration order
QClassVariants ==
    << <<"IN", 1>>, <<"CS", 2>>, <<"CH", 3>>, <<"HS", 4>>, <<"ANY", 255>> >>

\* an enum as the function from its variants to their discriminants
EnumOf(variants) ==
    [n \in {variants[i][1] : i \in DOMAIN variants} |->
        variants[CHOOSE i \in DOMAIN variants : variants[i][1] = n][2]]

QType == EnumOf(QTypeVariants)

QClass == EnumOf(QClassVariants)

\* derive_enum!(.., u16), to_network_bytes: write_u16(*self as u16), Ok(2)
enum_to_network_bytes(enum, self) ==
    [bytes |-> write_u16(enum[self]), length |-> 2]

\* derive_enum!(.., u16), from_network_bytes: read_u16, then try_from; *self
\* is assigned on Ok only, an Err(String) becomes DNSError::DNS
enum_from_network_bytes(enum, self, buf, p) ==
    LET r == read_u16(buf, p)
        t == try_from(enum, r.v)
    IN  IF ~r.ok THEN [self |-> self, position |-> r.position, result |-> "Io"]
        ELSE IF ~t.ok THEN [self |-> self, position |-> r.position, result |-> "DNS"]
        ELSE [self |-> t.v, position |-> r.position, result |-> "Ok"]

\* DomainName::from_slice, which from_network_bytes calls and the sources do
\* not hold: the labels of a slice, up to its zero octet or pointer
RECURSIVE from_slice(_, _)
from_slice(slice, acc) ==
    IF slice = <<>> \/ Head(slice) = 0 \/ is_pointer(Head(slice))
    THEN [ok |-> TRUE, labels |-> acc]
    ELSE IF Len(slice) < 1 + Head(slice)
         THEN [ok |-> FALSE, labels |-> acc]
         ELSE from_slice(SubSeq(slice, 2 + Head(slice), Len(slice)),
                         Append(acc, SubSeq(slice, 2, 1 + Head(slice))))

\* the position (from 1) of the first octet after p that is 0 or >= 192, or
\* 0: buffer.bytes().skip_while(|x| x != 0 && x < 192).next()
Sentinel(buf, p) ==
    LET c == {i \in p + 1 .. Len(buf) : buf[i] = 0 \/ buf[i] >= 192}
    IN  IF c = {} THEN 0 ELSE CHOOSE i \in c : \A j \in c : i <= j

\* DomainName::from_network_bytes (network_order/dns.rs) on a Cursor at p
DomainName_from_network_bytes(self, buf, p) ==
    LET end == Sentinel(buf, p)
        own == from_slice(SubSeq(buf, p + 1, end), self)
        pointer == PointerOffset(buf[end], buf[end + 1])
        far == from_slice(SubSeq(buf, pointer + 1, Len(buf)),
                          IF end - p = 1 THEN self ELSE own.labels)
    IN  IF end = 0
        THEN [self |-> self, position |-> Len(buf), result |-> "DNS"]
        ELSE IF buf[end] = 0
        THEN [self |-> own.labels, position |-> end,
              result |-> IF own.ok THEN "Ok" ELSE "DNS"]
        ELSE IF end + 1 > Len(buf)
        THEN [self |-> self, position |-> end, result |-> "Io"]
        ELSE IF end - p # 1 /\ ~own.ok
        THEN [self |-> own.labels, position |-> end + 1, result |-> "DNS"]
        ELSE IF pointer > Len(buf)
        THEN [self |-> IF end - p = 1 THEN self ELSE own.labels,
              position |-> end + 1, result |-> "panic"]
        ELSE [self |-> far.labels, position |-> end + 1,
              result |-> IF far.ok THEN "Ok" ELSE "DNS"]

\* #[derive(Default)] on DNSQuestion: no label, the first variants
DNSQuestion_default == [name |-> <<>>, type |-> "A", class |-> "IN"]

\* a faulty DNSQuestion encoder, the class before the type
DNSQuestion_class_first(self) ==
    LET e1 == DomainName_to_network_bytes(self.name)
        e2 == enum_to_network_bytes(QClass, self.class)
        e3 == enum_to_network_bytes(QType, self.type)
    IN  [bytes  |-> e1.bytes \o e2.bytes \o e3.bytes,
         length |-> e1.length + e2.length + e3.length]

\* The code DnsStruct generates for DNSQuestion::to_network_bytes
DNSQuestion_to_network_bytes(self) ==
    LET e1 == DomainName_to_network_bytes(self.name)
        e2 == enum_to_network_bytes(QType, self.type)
        e3 == enum_to_network_bytes(QClass, self.class)
    IN  [bytes  |-> e1.bytes \o e2.bytes \o e3.bytes,
         length |-> e1.length + e2.length + e3.length]

\* The code DnsStruct generates for DNSQuestion::from_network_bytes
DNSQuestion_from_network_bytes(self, buf, p) ==
    LET r1 == DomainName_from_network_bytes(self.name, buf, p)
        q1 == [self EXCEPT !.name = r1.self]
        r2 == enum_from_network_bytes(QType, self.type, buf, r1.position)
        q2 == [q1 EXCEPT !.type = r2.self]
        r3 == enum_from_network_bytes(QClass, self.class, buf, r2.position)
        q3 == [q2 EXCEPT !.class = r3.self]
    IN  IF r1.result # "Ok"
        THEN [self |-> q1, position |-> r1.position, result |-> r1.result]
        ELSE IF r2.result # "Ok"
        THEN [self |-> q2, position |-> r2.position, result |-> r2.result]
        ELSE [self |-> q3, position |-> r3.position, result |-> r3.result]

\* DNSPacket<DNSQuestion>::to_network_bytes: the header, then the data
DNSPacket_to_network_bytes(self) ==
    LET e1 == DNSPacketHeader_to_network_bytes(self.header)
        e2 == DNSQuestion_to_network_bytes(self.data)
    IN  [bytes |-> e1.bytes \o e2.bytes, length |-> e1.length + e2.length]

\* DNSPacket<DNSQuestion>::from_network_bytes after
\* self.header.from_network_bytes(buffer), r1 what that call gave: `?`, then
\* self.data.from_network_bytes(buffer)
DNSPacket_data_from_network_bytes(self, buf, r1) ==
    IF r1.result # "Ok"
    THEN [self |-> [self EXCEPT !.header = r1.self],
          position |-> r1.position, result |-> r1.result]
    ELSE LET r2 == DNSQuestion_from_network_bytes(self.data, buf, r1.position)
         IN  [self |-> [header |-> r1.self, data |-> r2.self],
              position |-> r2.position, result |-> r2.result]

\* DNSPacket<DNSQuestion>::from_network_bytes: the header, then the data
DNSPacket_from_network_bytes(self, buf, p) ==
    DNSPacket_data_from_network_bytes(self, buf,
        DNSPacketHeader_from_network_bytes(self.header, buf, p))

\* the flags and the header of tests::dnspacket_to_network; z: 0b111 is the
\* 3-bit field of the codec
TestFlags ==
    [packet_type |-> "Response", op_code |-> "IQuery",
     authorative_answer |-> TRUE, truncated |-> TRUE,
     recursion_desired |-> TRUE, recursion_available |-> TRUE,
     z |-> 7, authentic_data |-> FALSE, checking_disabled |-> FALSE,
     response_code |-> "NoError"]

TestHeader ==
    [id |-> 4660, flags |-> TestFlags,
     qd_count |-> 4660, an_count |-> 4660, ns_count |-> 4660, ar_count |-> 4660]

\* the octets tests::dnspacket_to_network expects
TestPacketOctets ==
    <<18, 52, 143, 240, 18, 52, 18, 52, 18, 52, 18, 52>>
    \o SAMPLE_SLICE \o <<0, 1, 0, 1>>

\* the packets handed to the encoder: the header of the test and headers of
\* one question with a few ids; names of labels a, aa, .. and www.google.ie;
\* a few types and every class
PacketHeaders ==
    {TestHeader}
    \cup { [DNSPacketHeader_default EXCEPT !.id = i, !.qd_count = 1,
                                           !.flags.recursion_desired = TRUE]
           : i \in {0, 4660, 65535} }

PacketNames ==
    UNION { [1 .. n -> { Repeat(97, k) : k \in 1 .. MaxLabelLen }]
            : n \in 0 .. MaxLabels }
    \cup {SAMPLE_DOMAIN}

PacketTypes == {"A", "NS", "AAAA", "OPT", "DLV"}

Packets ==
    { [header |-> h, data |-> [name |-> n, type |-> t, class |-> c]]
      : h \in PacketHeaders, n \in PacketNames, t \in PacketTypes,
        c \in DOMAIN QClass }

InitPacket ==
    /\ InitCommon
    /\ InitBesidesPacket
    /\ flags0 = DNSPacketFlags_default
    /\ NoName
    /\ pc = "packet_encode"
    /\ buffer = <<>>
    /\ position = 0
    /\ packet0 \in Packets
    /\ question = DNSQuestion_default

PacketToNetworkBytes ==
    /\ pc = "packet_encode"
    /\ LET e == DNSPacket_to_network_bytes(packet0)
       IN  /\ buffer' = buffer \o e.bytes
           /\ written' = e.length
    /\ pc' = "packet_decode"
    /\ UNCHANGED <<position, result, flagVars, header, out, nameVars, scalarVars,
                   packetVars, besidesPacket>>

PacketFromNetworkBytes ==
    /\ pc = "packet_decode"
    /\ LET r == DNSPacket_from_network_bytes(
                    [header |-> header, data |-> question], buffer, position)
       IN  /\ header' = r.self.header
           /\ question' = r.self.data
           /\ result' = r.result
           /\ position' \in AfterRead(buffer, r)
    /\ pc' = "packet_done"
    /\ UNCHANGED <<buffer, written, flagVars, out, nameVars, scalarVars, packet0,
                   besidesPacket>>

NextPacket == PacketToNetworkBytes \/ PacketFromNetworkBytes

SpecPacket == InitPacket /\ [][NextPacket]_vars

-----------------------------------------------------------------------------
(* The enums: TryFrom<u16>, and the codec derive_enum! generates.           *)

\* the enums DnsEnum is derived for, each with the variant Default returns
\* (the first declared)
Enums ==
    [PacketType   |-> [enum |-> PacketType,   default |-> "Query"],
     OpCode       |-> [enum |-> OpCode,       default |-> "Query"],
     ResponseCode |-> [enum |-> ResponseCode, default |-> "NoError"],
     QType        |-> [enum |-> QType,        default |-> QTypeVariants[1][1]],
     QClass       |-> [enum |-> QClass,       default |-> QClassVariants[1][1]]]

\* the enums derive_enum!(.., u16) is invoked for
WireEnums == {"QType", "QClass", "PacketType"}

\* every buffer of two octets, and three shorter ones
EnumBuffers == { write_u16(w) : w \in 0 .. 2^16 - 1 } \cup {<<>>, <<0>>, <<1>>}

\* one of: a variant encoded and decoded again; a buffer decoded into a
\* default variant; an integer converted by try_from; a flags word decoded
InitEnum ==
    /\ InitCommon
    /\ InitBesidesEnum
    /\ flags0 = DNSPacketFlags_default
    /\ NoName
    /\ position = 0
    /\ \/ /\ pc = "enum_encode"
          /\ enum_name \in WireEnums
          /\ variant0 \in DOMAIN Enums[enum_name].enum
          /\ variant = Enums[enum_name].default
          /\ discriminant = 0
          /\ buffer = <<>>
       \/ /\ pc = "enum_decode"
          /\ enum_name \in WireEnums
          /\ variant0 = "none"
          /\ variant = Enums[enum_name].default
          /\ discriminant = 0
          /\ buffer \in EnumBuffers
       \/ /\ pc = "try_from"
          /\ enum_name \in DOMAIN Enums \ WireEnums
          /\ variant0 = "none"
          /\ variant = Enums[enum_name].default
          /\ discriminant \in 0 .. 2^16 - 1
          /\ buffer = <<>>
       \/ /\ pc = "flags_decode"
          /\ NoEnum
          /\ buffer \in EnumBuffers

EnumToNetworkBytes ==
    /\ pc = "enum_encode"
    /\ LET e == enum_to_network_bytes(Enums[enum_name].enum, variant0)
       IN  /\ buffer' = buffer \o e.bytes
           /\ written' = e.length
    /\ pc' = "enum_decode"
    /\ UNCHANGED <<position, result, flagVars, header, out, nameVars, scalarVars,
                   enumVars, besidesEnum>>

EnumFromNetworkBytes ==
    /\ pc = "enum_decode"
    /\ LET r == enum_from_network_bytes(Enums[enum_name].enum, variant, buffer, position)
       IN  /\ variant' = r.self
           /\ result' = r.result
           /\ position' \in AfterRead(buffer, r)
    /\ pc' = "enum_done"
    /\ UNCHANGED <<buffer, written, flagVars, header, out, nameVars, scalarVars,
                   enum_name, variant0, discriminant, besidesEnum>>

\* <enum>::try_from(value): Ok(variant) or Err(String)
EnumTryFrom ==
    /\ pc = "try_from"
    /\ LET t == try_from(Enums[enum_name].enum, discriminant)
       IN  /\ variant' = IF t.ok THEN t.v ELSE variant
           /\ result' = IF t.ok THEN "Ok" ELSE "String"
    /\ pc' = "try_from_done"
    /\ UNCHANGED <<buffer, position, written, flagVars, header, out, nameVars,
                   scalarVars, enum_name, variant0, discriminant, besidesEnum>>

NextEnum ==
    \/ EnumToNetworkBytes
    \/ EnumFromNetworkBytes
    \/ EnumTryFrom
    \/ FlagsFromNetworkBytes

SpecEnum == InitEnum /\ [][NextEnum]_vars

\* the discriminants an enum declares
Declared(enum) == { enum[n] : n \in DOMAIN enum }

\* C14: for each of the five enums, the conversion of an integer succeeds
\* exactly when the integer is a declared discriminant and gives the variant
\* with that discriminant, so a variant cast and converted back is itself;
\* every other integer is an error, on the wire too: an undeclared type,
\* class, opcode or response code fails the decode instead of becoming some
\* variant.
C14_EnumConversion ==
    LET E == Enums[enum_name].enum
        w == read_u16(buffer, 0)
    IN  /\ pc = "try_from_done" =>
            /\ (result = "Ok") <=> (discriminant \in Declared(E))
            /\ result = "Ok" => E[variant] = discriminant
            /\ result # "Ok" => (result = "String" /\ variant = Enums[enum_name].default)
        /\ pc = "enum_done" /\ w.ok =>
            /\ (result = "Ok") <=> (w.v \in Declared(E))
            /\ result = "Ok" => E[variant] = w.v
            /\ result # "Ok" => (result = "DNS" /\ variant = Enums[enum_name].default)
            /\ variant0 # "none" => (result = "Ok" /\ variant = variant0)
        /\ pc = "flags_done" /\ w.ok =>
            /\ (result = "Ok") <=>
                   /\ LowBits(Shr(w.v, 11), 4) \in Declared(OpCode)
                   /\ LowBits(w.v, 4) \in Declared(ResponseCode)
            /\ result = "Ok" =>
                   /\ PacketType[flags.packet_type] = Shr(w.v, 15)
                   /\ OpCode[flags.op_code] = LowBits(Shr(w.v, 11), 4)
                   /\ ResponseCode[flags.response_code] = LowBits(w.v, 4)
            /\ result # "Ok" => result = "DNS"

\* the type code 0xFFFF, which QType does not declare, has been read off the
\* wire and refused
C14_Witness ==
    /\ pc = "enum_done"
    /\ enum_name = "QType"
    /\ buffer = <<255, 255>>
    /\ result = "DNS"
    /\ variant = "A"

-----------------------------------------------------------------------------
(* Building the query: DNSMessage::default, DnsQuery::default,              *)
(* DNSRequest::init_request, push_question and the OPT step of main.       *)

\* the header DNSMessage::default and DnsQuery::default build, id the number
\* rng.gen::<u16>() gave
QueryHeader(id) ==
    [DNSPacketHeader_default EXCEPT !.id = id,
                                    !.flags.packet_type = "Query",
                                    !.flags.op_code = "Query",
                                    !.flags.recursion_desired = TRUE]

\* a faulty DNSMessage::default, recursion_desired left out
DNSMessage_default_no_rd(id) ==
    [header |-> [QueryHeader(id) EXCEPT !.flags.recursion_desired = FALSE],
     question |-> <<>>, answer |-> <<>>, authority |-> <<>>, additional |-> <<>>]

\* DNSMessage::default; an Option is <<>> for None and <<x>> for Some(x)
DNSMessage_default(id) ==
    [header |-> QueryHeader(id), question |-> <<>>,
     answer |-> <<>>, authority |-> <<>>, additional |-> <<>>]

\* DnsQuery::default
DnsQuery_default(id) ==
    [header |-> QueryHeader(id), questions |-> <<>>, opt |-> <<>>]

\* #[derive(Default)] on DNSPacket<DNSQuestion>
DNSPacket_default == [header |-> DNSPacketHeader_default, data |-> DNSQuestion_default]

\* DNSQuestion::new(domain, qtype, None), domain given by its labels
DNSQuestion_new(domain, qtype) == [name |-> domain, type |-> qtype, class |-> "IN"]

\* DNSRequest::init_request
init_request(domain, packet, qtype, id) ==
    [header |-> [packet.header EXCEPT !.id = id,
                                      !.flags.packet_type = "Query",
                                      !.flags.op_code = "Query",
                                      !.flags.authorative_answer = FALSE,
                                      !.flags.truncated = FALSE,
                                      !.flags.recursion_desired = TRUE,
                                      !.flags.recursion_available = FALSE,
                                      !.qd_count = 1, !.an_count = 0,
                                      !.ns_count = 0, !.ar_count = 0],
     data |-> DNSQuestion_new(domain, qtype)]

\* x += 1 on a u16: past 65535 the addition panics where overflow checks are
\* compiled in and wraps to 0 where they are not
AddOne(x) ==
    IF x + 1 < 2^16 THEN {[panic |-> FALSE, v |-> x + 1]}
    ELSE {[panic |-> TRUE, v |-> x], [panic |-> FALSE, v |-> 0]}

\* DNSMessage::push_question: the outcomes, the message and whether the call
\* panicked
DNSMessage_push_question(self, q) ==
    { [panic |-> a.panic,
       self |-> [self EXCEPT !.question = Append(self.question, q),
                             !.header.qd_count = a.v]]
      : a \in AddOne(self.header.qd_count) }

\* DnsQuery::push_question
DnsQuery_push_question(self, q) ==
    { [panic |-> a.panic,
       self |-> [self EXCEPT !.questions = Append(self.questions, q),
                             !.header.qd_count = a.v]]
      : a \in AddOne(self.header.qd_count) }

\* #[derive(Default)] on OptTTL, and OPT::default
OptTTL_default == [extented_rcode |-> 0, version |-> 0, z |-> 0]

OPT_default ==
    [name |-> 0, type |-> "OPT", udp_payload_size |-> 4096,
     ttl |-> OptTTL_default, rd_length |-> 0, rd_data |-> <<>>]

\* the question list of a message or query
Questions(q) == IF "question" \in DOMAIN q THEN q.question ELSE q.questions

\* the types asked for on the command line
QueryTypes == {"A", "MX"}

\* the CLI is started with its options; the query is built step by step
InitQuery ==
    /\ InitCommon
    /\ InitBesidesQuery
    /\ flags0 = DNSPacketFlags_default
    /\ NoName
    /\ buffer = <<>>
    /\ position = 0
    /\ pc = "query_new"
    /\ program \in {"main", "dnsquery", "send_query"}
    /\ no_opt \in BOOLEAN
    /\ query = "none"
    /\ pushes = 0

\* let mut query = DNSMessage::default() / DNSQuery::default()
QueryDefault ==
    /\ pc = "query_new"
    /\ program \in {"main", "dnsquery"}
    /\ \E id \in 0 .. 2^16 - 1 :
          query' = IF program = "main" THEN DNSMessage_default(id)
                   ELSE DnsQuery_default(id)
    /\ pc' = "query_push"
    /\ UNCHANGED <<buffer, position, result, written, flagVars, header, out,
                   nameVars, scalarVars, program, no_opt, pushes, besidesQuery>>

\* send_query: DNSPacket::default(), then init_request
QueryInitRequest ==
    /\ pc = "query_new"
    /\ program = "send_query"
    /\ \E id \in 0 .. 2^16 - 1, qtype \in QueryTypes :
          query' = init_request(SAMPLE_DOMAIN, DNSPacket_default, qtype, id)
    /\ pc' = "query_send"
    /\ UNCHANGED <<buffer, position, result, written, flagVars, header, out,
                   nameVars, scalarVars, program, no_opt, pushes, besidesQuery>>

\* query.push_question(DNSQuestion::new(&options.domain, options.qtype, None)?)
QueryPushQuestion ==
    /\ pc = "query_push"
    /\ \E qtype \in QueryTypes :
          \E o \in IF program = "main"
                   THEN DNSMessage_push_question(query, DNSQuestion_new(SAMPLE_DOMAIN, qtype))
                   ELSE DnsQuery_push_question(query, DNSQuestion_new(SAMPLE_DOMAIN, qtype)) :
             /\ query' = o.self
             /\ pc' = IF o.panic THEN "query_panic" ELSE "query_opt"
    /\ pushes' = pushes + 1
    /\ UNCHANGED <<buffer, position, result, written, flagVars, header, out,
                   nameVars, scalarVars, program, no_opt, besidesQuery>>

\* if !options.no_opt { .. }: the body is a comment in main.rs, and
\* query.opt = Some(OPT::default()) in dnsquery.rs
QueryOpt ==
    /\ pc = "query_opt"
    /\ query' = IF program = "dnsquery" /\ ~no_opt
                THEN [query EXCEPT !.opt = <<OPT_default>>]
                ELSE query
    /\ pc' = "query_send"
    /\ UNCHANGED <<buffer, position, result, written, flagVars, header, out,
                   nameVars, scalarVars, program, no_opt, pushes, besidesQuery>>

NextQuery == QueryDefault \/ QueryInitRequest \/ QueryPushQuestion \/ QueryOpt

SpecQuery == InitQuery /\ [][NextQuery]_vars

\* the push_question calls the model follows from each starting point
MaxPush == 2

\* the numbers of questions already pushed when the model starts
PushedBefore == {0, 1, 2^16 - 2, 2^16 - 1}

\* a message or query that push_question has been called on n times
Pushed(prog, id, n, q) ==
    IF prog = "main"
    THEN [DNSMessage_default(id) EXCEPT !.question = Repeat(q, n),
                                        !.header.qd_count = n]
    ELSE [DnsQuery_default(id) EXCEPT !.questions = Repeat(q, n),
                                      !.header.qd_count = n]

InitPush ==
    /\ InitCommon
    /\ InitBesidesQuery
    /\ flags0 = DNSPacketFlags_default
    /\ NoName
    /\ buffer = <<>>
    /\ position = 0
    /\ pc = "push"
    /\ program \in {"main", "dnsquery"}
    /\ no_opt = FALSE
    /\ \E id \in {0, 4660, 2^16 - 1}, n \in PushedBefore :
          query = Pushed(program, id, n, DNSQuestion_new(SAMPLE_DOMAIN, "A"))
    /\ pushes = 0

\* one more push_question
PushQuestion ==
    /\ pc = "push"
    /\ pushes < MaxPush
    /\ \E qtype \in QueryTypes :
          \E o \in IF program = "main"
                   THEN DNSMessage_push_question(query, DNSQuestion_new(SAMPLE_DOMAIN, qtype))
                   ELSE DnsQuery_push_question(query, DNSQuestion_new(SAMPLE_DOMAIN, qtype)) :
             /\ query' = o.self
             /\ pc' = IF o.panic THEN "push_panic" ELSE "push"
    /\ pushes' = pushes + 1
    /\ UNCHANGED <<buffer, position, result, written, flagVars, header, out,
                   nameVars, scalarVars, program, no_opt, besidesQuery>>

NextPush == PushQuestion

SpecPush == InitPush /\ [][NextPush]_vars

\* C15: after any number of push_question calls on a default message or
\* query, header.qd_count is the length of the question list.
C15_QdCountIsLength ==
    pc \in {"push", "push_panic"} => query.header.qd_count = Len(Questions(query))

\* C16: a freshly built query is a Query with opcode Query and
\* recursion_desired set, every other flag false and the response code
\* NoError, whatever the random id.
C16_FreshQueryFlags ==
    pc \in {"query_push", "query_opt", "query_send"} =>
        query.header.flags =
            [packet_type |-> "Query", op_code |-> "Query",
             authorative_answer |-> FALSE, truncated |-> FALSE,
             recursion_desired |-> TRUE, recursion_available |-> FALSE,
             z |-> 0, authentic_data |-> FALSE, checking_disabled |-> FALSE,
             response_code |-> "NoError"]

\* DNSMessage::default has drawn the id 65535
C16_Witness ==
    /\ pc = "query_push"
    /\ program = "main"
    /\ query.header.id = 65535
    /\ query.header.flags.recursion_desired

\* the additionals of the message or query about to be sent
Additionals(q) == IF "additional" \in DOMAIN q THEN q.additional ELSE q.opt

\* C17: the query the CLI sends holds exactly one default OPT in its
\* additionals and ar_count 1 when OPT is enabled, and no additional and
\* ar_count 0 when it is disabled.
C17_OptInAdditionals ==
    pc = "query_send" /\ program \in {"main", "dnsquery"} =>
        IF no_opt
        THEN Additionals(query) = <<>> /\ query.header.ar_count = 0
        ELSE Additionals(query) = <<OPT_default>> /\ query.header.ar_count = 1

-----------------------------------------------------------------------------
(* receive_answer (dnsquery/main.rs, dnsquery/dnsquery.rs).                 *)

\* for _ in 0..qd_count { question.from_network_bytes(&mut cursor)?; } on the
\* one DNSQuestion q, done the iterations completed
RECURSIVE ForQuestions(_, _, _, _, _)
ForQuestions(q, buf, p, n, done) ==
    IF done = n
    THEN [self |-> q, position |-> p, result |-> "Ok", read |-> done]
    ELSE LET r == DNSQuestion_from_network_bytes(q, buf, p)
         IN  IF r.result # "Ok"
             THEN [self |-> r.self, position |-> r.position,
                   result |-> r.result, read |-> done]
             ELSE ForQuestions(r.self, buf, r.position, n, done + 1)

\* display_data(&mut cursor), which receive_answer calls and the sources hold
\* only as a comment: it returns Ok with the cursor moved on, or an error
display_data(buf, p) ==
    { [result |-> "Ok", position |-> e] : e \in p .. Len(buf) }
    \cup { [result |-> k, position |-> p] : k \in {"Io", "DNS"} }

\* for _ in 1..=an_count { display_data(&mut cursor)?; }: the outcomes
RECURSIVE ForAnswers(_, _, _, _)
ForAnswers(buf, p, n, done) ==
    IF done = n
    THEN {[position |-> p, result |-> "Ok", read |-> done]}
    ELSE UNION { IF d.result = "Ok"
                 THEN ForAnswers(buf, d.position, n, done + 1)
                 ELSE {[position |-> d.position, result |-> d.result, read |-> done]}
                 : d \in display_data(buf, p) }

\* no record decoded
NoneDecoded == [questions |-> 0, answers |-> 0, authorities |-> 0, additionals |-> 0]

\* receive_answer from the loop over the answers on, h what the header decode
\* gave and q what the loop over the questions gave
receive_answer_answers(buf, h, q) ==
    IF q.result # "Ok"
    THEN { [header |-> h.self, question |-> q.self, position |-> e,
            result |-> q.result, exit_code |-> "none",
            decoded |-> [NoneDecoded EXCEPT !.questions = q.read]]
           : e \in AfterRead(buf, q) }
    ELSE { [header |-> h.self, question |-> q.self, position |-> a.position,
            result |-> a.result, exit_code |-> "none",
            decoded |-> [NoneDecoded EXCEPT !.questions = q.read, !.answers = a.read]]
           : a \in ForAnswers(buf, q.position, h.self.an_count, 0) }

\* a faulty receive_answer, the test of the response code left out
receive_answer_header_unchecked(buf, h) ==
    IF h.result # "Ok"
    THEN { [header |-> h.self, question |-> "none", position |-> e,
            result |-> h.result, exit_code |-> "none", decoded |-> NoneDecoded]
           : e \in AfterRead(buf, h) }
    ELSE receive_answer_answers(buf, h,
             IF h.self.qd_count >= 1
             THEN ForQuestions(DNSQuestion_default, buf, h.position, h.self.qd_count, 0)
             ELSE [self |-> "none", position |-> h.position, result |-> "Ok", read |-> 0])

\* receive_answer from the `?` after the header decode on: the test of the
\* response code, then the questions, read only if qd_count >= 1
receive_answer_header(buf, h) ==
    IF h.result # "Ok"
    THEN { [header |-> h.self, question |-> "none", position |-> e,
            result |-> h.result, exit_code |-> "none", decoded |-> NoneDecoded]
           : e \in AfterRead(buf, h) }
    ELSE IF h.self.flags.response_code # "NoError"
    THEN { [header |-> h.self, question |-> "none", position |-> h.position,
            result |-> "none", exit_code |-> 1, decoded |-> NoneDecoded] }
    ELSE receive_answer_answers(buf, h,
             IF h.self.qd_count >= 1
             THEN ForQuestions(DNSQuestion_default, buf, h.position, h.self.qd_count, 0)
             ELSE [self |-> "none", position |-> h.position, result |-> "Ok", read |-> 0])

\* receive_answer on the octets received: the outcomes, each with the header,
\* the question, where the cursor stands, the Result returned ("none" when
\* the process has exited), the exit status and the records decoded
receive_answer(buf) ==
    receive_answer_header(buf,
        DNSPacketHeader_from_network_bytes(DNSPacketHeader_default, buf, 0))

\* the most questions, and the most records of a section, in a response
MaxQuestions == 2

MaxRecords == 1

\* a question for www.google.ie, A, IN, and an A record whose name is a
\* pointer to offset 12
QuestionOctets ==
    DNSQuestion_to_network_bytes(DNSQuestion_new(SAMPLE_DOMAIN, "A")).bytes

RecordOctets ==
    <<192, 12>> \o write_u16(1) \o write_u16(1) \o <<0, 0, 0, 60>>
    \o write_u16(4) \o <<1, 2, 3, 4>>

\* the concatenation of n copies of s
RECURSIVE Copies(_, _)
Copies(s, n) == IF n = 0 THEN <<>> ELSE s \o Copies(s, n - 1)

\* a well-formed response: the header with its counts, then as many questions
\* and records as the counts say
Response(rcode, qd, an, ns, ar) ==
    DNSPacketHeader_to_network_bytes(
        [id |-> 4660,
         flags |-> [DNSPacketFlags_default EXCEPT !.packet_type = "Response",
                                                  !.recursion_desired = TRUE,
                                                  !.recursion_available = TRUE,
                                                  !.response_code = rcode],
         qd_count |-> qd, an_count |-> an, ns_count |-> ns, ar_count |-> ar]).bytes
    \o Copies(QuestionOctets, qd) \o Copies(RecordOctets, an + ns + ar)

Responses ==
    { Response(rcode, qd, an, ns, ar) :
        rcode \in {"NoError", "FormErr", "NXDomain"}, qd \in 0 .. MaxQuestions,
        an \in 0 .. MaxRecords, ns \in 0 .. MaxRecords, ar \in 0 .. MaxRecords }

\* the octets socket.recv gave: a well-formed response, or one cut short
InitReceive ==
    /\ InitCommon
    /\ InitBesidesReceive
    /\ NoReceive
    /\ flags0 = DNSPacketFlags_default
    /\ NoName
    /\ packet0 = "none"
    /\ question = "none"
    /\ pc = "receive"
    /\ position = 0
    /\ \E r \in Responses, n \in {0, 5, 12, 20, 512} :
          buffer = SubSeq(r, 1, IF n < Len(r) THEN n ELSE Len(r))

ReceiveAnswer ==
    /\ pc = "receive"
    /\ \E o \in receive_answer(buffer) :
          /\ header' = o.header
          /\ question' = o.question
          /\ position' = o.position
          /\ result' = o.result
          /\ exit_code' = o.exit_code
          /\ decoded' = o.decoded
          /\ pc' = IF o.result = "none" THEN "exited" ELSE "receive_done"
    /\ UNCHANGED <<buffer, written, flagVars, out, nameVars, scalarVars, packet0,
                   besidesReceive>>

NextReceive == ReceiveAnswer

SpecReceive == InitReceive /\ [][NextReceive]_vars

\* C18: after receive_answer has decoded a response successfully, the
\* questions, answers, authorities and additionals decoded are as many as
\* qd_count, an_count, ns_count and ar_count of its header.
C18_SectionCounts ==
    pc = "receive_done" /\ result = "Ok" =>
        /\ decoded.questions = header.qd_count
        /\ decoded.answers = header.an_count
        /\ decoded.authorities = header.ns_count
        /\ decoded.additionals = header.ar_count

\* C20: a well-formed response with a non-zero response code is decoded in
\* full, its questions included, and the code is returned as a ResponseRcode
\* error value; the process goes on.
C20_RcodeSurfaced ==
    /\ pc \in {"receive_done", "exited"}
    /\ buffer \in Responses
    /\ ResponseCode[header.flags.response_code] # 0
    => /\ pc = "receive_done"
       /\ result = "ResponseRcode"
       /\ decoded.questions = header.qd_count

-----------------------------------------------------------------------------
(* Claim about a decode that fails part-way.                                *)

\* C19: when the decoding of a header fails at some field, the header handed
\* to the decoder holds none of the fields decoded before the failure: it is
\* still the default header it was.
C19_NoPartialTarget ==
    pc = "header_failed" => header = DNSPacketHeader_default

-----------------------------------------------------------------------------
(* A DomainName built from a string: TryFrom<&str> for DomainName            *)
(* (src/src/rfc1035.rs), then the name encoded.  A &str is the sequence of   *)
(* its octets; 46 is the dot.                                                *)

\* domain.split('.'): the components between the dots, the empty ones
\* included
RECURSIVE split(_)
split(s) ==
    LET dots == { i \in 1 .. Len(s) : s[i] = 46 }
    IN  IF dots = {} THEN <<s>>
        ELSE LET d == CHOOSE i \in dots : \A j \in dots : i <= j
             IN  <<SubSeq(s, 1, d - 1)>> \o split(SubSeq(s, d + 1, Len(s)))

\* a faulty try_from, the filter on empty components left out
DomainName_try_from_unfiltered(s) ==
    IF s = <<>>
    THEN [result |-> "DNSInternalError(EmptyDomainName)", labels |-> <<>>]
    ELSE LET parts == split(s)
             label_list == IF s = <<46>> THEN <<>>
                           ELSE [i \in 1 .. Len(parts) |-> Label(parts[i])]
         IN  [result |-> "Ok", labels |-> Append(label_list, Root)]

\* DomainName::try_from(domain): the Result and, when Ok, the labels
DomainName_try_from(s) ==
    IF s = <<>>
    THEN [result |-> "DNSInternalError(EmptyDomainName)", labels |-> <<>>]
    ELSE LET parts == SelectSeq(split(s), LAMBDA x : x # <<>>)
             label_list == IF s = <<46>> THEN <<>>
                           ELSE [i \in 1 .. Len(parts) |-> Label(parts[i])]
         IN  [result |-> "Ok", labels |-> Append(label_list, Root)]

\* the longest of the short strings handed to try_from
MaxTextLen == 4

\* "www.example.com"
WWW_EXAMPLE_COM ==
    <<119, 119, 119, 46, 101, 120, 97, 109, 112, 108, 101, 46, 99, 111, 109>>

\* a name of four 63-octet labels (257 octets once encoded), a 64-octet
\* label and a 256-octet label
LongTexts ==
    { Repeat(97, 63) \o <<46>> \o Repeat(98, 63) \o <<46>> \o Repeat(97, 63)
          \o <<46>> \o Repeat(98, 63),
      Repeat(97, 64) \o <<46, 98>>,
      Repeat(97, 256) }

\* the strings a caller hands in: every string of at most MaxTextLen octets
\* among a, b and the dot, and the strings above
Domains ==
    UNION { [1 .. n -> {46, 97, 98}] : n \in 0 .. MaxTextLen }
    \cup { WWW_EXAMPLE_COM } \cup LongTexts

InitName ==
    /\ InitCommon
    /\ NoPrimitive /\ NoPacket /\ NoEnum /\ NoQuery /\ NoReceive /\ NoName
    /\ flags0 = DNSPacketFlags_default
    /\ buffer = <<>>
    /\ position = 0
    /\ events = <<>>
    /\ record = "none"
    /\ elements = <<>>
    /\ rounds = 0
    /\ status = -1
    /\ text \in Domains
    /\ pc = "try_from"

DomainNameTryFrom ==
    /\ pc = "try_from"
    /\ LET r == DomainName_try_from(text)
       IN  /\ result' = r.result
           /\ labels' = r.labels
           /\ pc' = IF r.result = "Ok" THEN "name_encode" ELSE "try_from_failed"
    /\ UNCHANGED <<buffer, position, written, flagVars, header, out,
                   name0, pos, index, stack, ret, discarded, scalarVars,
                   primVars, packetVars, enumVars, queryVars, receiveVars,
                   text, events, record, elements, rounds, status>>

\* the strings of the labels of a name, its Root left out
LabelData(ls) ==
    LET named == SelectSeq(ls, LAMBDA l : l.type = "Label")
    IN  [i \in 1 .. Len(named) |-> named[i].label.data]

\* the name built is encoded into an empty Vec<u8>
BuiltNameToNetworkBytes ==
    /\ pc = "name_encode"
    /\ LET r == DomainName_to_network_bytes(LabelData(labels))
       IN  /\ buffer' = r.bytes
           /\ written' = r.length
    /\ pc' = "name_encoded"
    /\ UNCHANGED <<position, result, flagVars, header, out, nameVars, scalarVars,
                   primVars, packetVars, enumVars, queryVars, receiveVars,
                   clientVars>>

NextName == DomainNameTryFrom \/ BuiltNameToNetworkBytes

SpecName == InitName /\ [][NextName]_vars

\* the maximal runs of octets other than the dot in s, as the positions where
\* they start, and where the run that starts at i ends
RunStarts(s) == { i \in 1 .. Len(s) : s[i] # 46 /\ (i = 1 \/ s[i - 1] = 46) }

RunEnd(s, i) ==
    CHOOSE j \in i .. Len(s) :
        /\ \A k \in i .. j : s[k] # 46
        /\ (j = Len(s) \/ s[j + 1] = 46)

\* C24: DomainName::try_from fails with EmptyDomainName on the empty string;
\* on every other string it gives one label for each non-empty component
\* between the dots, in order, then one Root, which is the last element and
\* the only Root
C24_TryFromComponents ==
    pc \in {"name_encode", "try_from_failed"} =>
        IF text = <<>>
        THEN pc = "try_from_failed" /\ result = "DNSInternalError(EmptyDomainName)"
        ELSE /\ pc = "name_encode"
             /\ result = "Ok"
             /\ Len(labels) = Cardinality(RunStarts(text)) + 1
             /\ labels[Len(labels)] = Root
             /\ \A k \in 1 .. Len(labels) - 1 :
                   /\ labels[k].type = "Label"
                   /\ labels[k].label.data # <<>>
                   /\ \E i \in RunStarts(text) :
                         /\ Cardinality({ j \in RunStarts(text) : j < i }) = k - 1
                         /\ labels[k].label.data = SubSeq(text, i, RunEnd(text, i))

\* "www.example.com" has given www, example, com and Root
C24_Witness ==
    /\ pc = "name_encode"
    /\ text = WWW_EXAMPLE_COM
    /\ labels = << Label(<<119, 119, 119>>),
                   Label(<<101, 120, 97, 109, 112, 108, 101>>),
                   Label(<<99, 111, 109>>), Root >>

\* a label of s is longer than 63 octets, or s encodes to more than 255
TooLong(s) ==
    \/ \E i \in RunStarts(s) : RunEnd(s, i) - i + 1 > 63
    \/ Len(DomainName_to_network_bytes(LabelData(DomainName_try_from(s).labels)).bytes) > 255

\* C25: a string with a label longer than 63 octets, or whose encoded form is
\* longer than 255 octets, is refused by try_from with an error; every name it
\* accepts encodes to at most 255 octets, each length octet in 1..63 and equal
\* to the number of label octets after it
C25_LongNameRefused ==
    /\ pc \in {"name_encode", "name_encoded"} => ~TooLong(text)
    /\ pc = "name_encoded" =>
          /\ Len(buffer) <= 255
          /\ WellFormedName(buffer, 0, {}).ok
          /\ WellFormedName(buffer, 0, {}).next = Len(buffer)
          /\ WellFormedName(buffer, 0, {}).labels = labels

-----------------------------------------------------------------------------
(* The client from start to exit: main of src/src/dnsquery/main.rs.  events  *)
(* lists what has been done, in order; status is the exit status: 0 when     *)
(* main returns Ok(()), 1 when it returns an Err or calls                    *)
(* std::process::exit(1), 2 when the argument parser ends the process, 101   *)
(* after a panic.                                                            *)

\* Vec<DNSQuestion>::to_network_bytes: for item in self, acc the octets
\* appended and the length counted so far
RECURSIVE ForItems(_, _)
ForItems(items, acc) ==
    IF items = <<>> THEN acc
    ELSE LET e == DNSQuestion_to_network_bytes(Head(items))
         IN  ForItems(Tail(items), [bytes  |-> acc.bytes \o e.bytes,
                                    length |-> acc.length + e.length])

\* the code DnsStruct generates for DNSMessage::to_network_bytes: the header,
\* the questions, and the three Options, which are None
DNSMessage_to_network_bytes(self) ==
    LET e1 == DNSPacketHeader_to_network_bytes(self.header)
    IN  ForItems(self.question, [bytes |-> e1.bytes, length |-> e1.length])

\* the exit status of a process whose main returned r, or panicked
ExitStatus(r) == IF r = "Ok" THEN 0 ELSE IF r = "panic" THEN 101 ELSE 1

\* what receive_answer has done, in order, when it ends with the outcome o on
\* the octets buf: the header is decoded and printed ("ANSWER: .."), the
\* questions are decoded, then display_data decodes and prints each answer
ReceiveEvents(buf, o) ==
    LET h == DNSPacketHeader_from_network_bytes(DNSPacketHeader_default, buf, 0)
        failed == IF o.result \in {"Ok", "none"} THEN 0 ELSE 1
    IN  IF h.result # "Ok" THEN <<"decode_header">>
        ELSE IF o.result = "none" THEN <<"decode_header", "display_header">>
        ELSE <<"decode_header", "display_header">>
             \o [i \in 1 .. (IF o.decoded.answers = 0 /\ o.decoded.questions < h.self.qd_count
                             THEN o.decoded.questions + failed
                             ELSE o.decoded.questions) |-> "decode_question"]
             \o Copies(<<"decode_record", "display_record">>, o.decoded.answers)
             \o (IF failed = 1 /\ o.decoded.questions = h.self.qd_count
                 THEN <<"decode_record">> ELSE <<>>)

\* the domains given on the command line: none, a, a.b and www.example.com
MainDomains == { <<>>, <<97>>, <<97, 46, 98>>, WWW_EXAMPLE_COM }

InitMain ==
    /\ InitCommon
    /\ NoPrimitive /\ NoPacket /\ NoEnum /\ NoReceive /\ NoName
    /\ flags0 = DNSPacketFlags_default
    /\ buffer = <<>>
    /\ position = 0
    /\ program = "main"
    /\ no_opt \in BOOLEAN
    /\ query = "none"
    /\ pushes = 0
    /\ text \in MainDomains
    /\ events = <<>>
    /\ record = "none"
    /\ elements = <<>>
    /\ rounds = 0
    /\ status = -1
    /\ pc = "main_options"

\* the process ends with the Result r of main
MainEnds(r) ==
    /\ result' = r
    /\ status' = ExitStatus(r)
    /\ pc' = "main_done"

\* let options = CliOptions::options()?: clap ends the process with status 2
\* on a usage error; QType::from_str or init_logger may fail
MainOptions ==
    /\ pc = "main_options"
    /\ \/ /\ pc' = "main_bind"
          /\ UNCHANGED <<result, status>>
       \/ \E r \in {"DNS", "Io", "LoggerError"} : MainEnds(r)
       \/ /\ pc' = "main_done"
          /\ status' = 2
          /\ UNCHANGED result
    /\ UNCHANGED <<buffer, position, written, flagVars, header, out, nameVars,
                   scalarVars, primVars, packetVars, enumVars, queryVars,
                   receiveVars, text, events, record, elements, rounds>>

\* let socket = UdpSocket::bind("0.0.0.0:0")?
MainBind ==
    /\ pc = "main_bind"
    /\ \/ /\ pc' = "main_query"
          /\ UNCHANGED <<result, status>>
       \/ MainEnds("Io")
    /\ UNCHANGED <<buffer, position, written, flagVars, header, out, nameVars,
                   scalarVars, primVars, packetVars, enumVars, queryVars,
                   receiveVars, text, events, record, elements, rounds>>

\* DNSMessage::default(), DNSQuestion::new(&options.domain, options.qtype,
\* None)? and query.push_question(question)
MainQuery ==
    /\ pc = "main_query"
    /\ LET dn == DomainName_try_from(text)
       IN  IF dn.result # "Ok"
           THEN MainEnds(dn.result) /\ UNCHANGED <<query, pushes>>
           ELSE \E id \in {0, 4660}, qtype \in QueryTypes :
                   \E o \in DNSMessage_push_question(DNSMessage_default(id),
                                DNSQuestion_new(LabelData(dn.labels), qtype)) :
                      /\ query' = o.self
                      /\ pushes' = pushes + 1
                      /\ pc' = "main_send"
                      /\ UNCHANGED <<result, status>>
    /\ UNCHANGED <<buffer, position, written, flagVars, header, out, nameVars,
                   scalarVars, primVars, packetVars, enumVars, program, no_opt,
                   receiveVars, text, events, record, elements, rounds>>

\* query.send(&socket, &options.ns)?: the query is encoded into a Vec<u8>,
\* then socket.send_to, which may fail
MainSend ==
    /\ pc = "main_send"
    /\ out' = DNSMessage_to_network_bytes(query).bytes
    /\ \/ /\ events' = events \o <<"encoded", "sent">>
          /\ pc' = "main_receive"
          /\ UNCHANGED <<result, status>>
       \/ /\ events' = events \o <<"encoded">>
          /\ MainEnds("Io")
    /\ UNCHANGED <<buffer, position, written, flagVars, header, nameVars,
                   scalarVars, primVars, packetVars, enumVars, queryVars,
                   receiveVars, text, record, elements, rounds>>

\* let _received = receive_answer(&socket, options.debug)?: socket.recv fails,
\* or gives the octets of a response, whole or cut short, and receive_answer
\* goes on with them; then main returns
MainReceive ==
    /\ pc = "main_receive"
    /\ \/ /\ MainEnds("Io")
          /\ UNCHANGED <<buffer, position, header, question, receiveVars, events>>
       \/ \E r \in Responses, n \in {0, 5, 12, 20, 512} :
             LET buf == SubSeq(r, 1, IF n < Len(r) THEN n ELSE Len(r))
             IN  \E o \in receive_answer(buf) :
                    /\ buffer' = buf
                    /\ header' = o.header
                    /\ question' = o.question
                    /\ position' = o.position
                    /\ decoded' = o.decoded
                    /\ exit_code' = o.exit_code
                    /\ events' = events \o <<"received">> \o ReceiveEvents(buf, o)
                    /\ result' = o.result
                    /\ status' = IF o.result = "none" THEN 1 ELSE ExitStatus(o.result)
                    /\ pc' = "main_done"
    /\ UNCHANGED <<written, flagVars, out, nameVars, scalarVars, primVars,
                   packet0, enumVars, queryVars, text, record, elements,
                   rounds>>

NextMain == MainOptions \/ MainBind \/ MainQuery \/ MainSend \/ MainReceive

SpecMain == InitMain /\ [][NextMain]_vars

\* the response code on the wire: the low four bits of the fourth octet
WireRcode(buf) == buf[4] % 16

C26_EventOrder ==
    \A i \in DOMAIN events : \A j \in DOMAIN events :
        i < j =>
            /\ ~(events[i] = "sent" /\ events[j] = "encoded")
            /\ ~(events[i] \in {"decode_header", "decode_question", "decode_record"}
                 /\ events[j] = "received")
            /\ ~(events[i] \in {"display_header", "display_record"}
                 /\ events[j] \in {"decode_header", "decode_question", "decode_record"})

-----------------------------------------------------------------------------
(* A resource record decoded and displayed: ResourceRecord::from_network_bytes *)
(* (src/src/response.rs) and display_resource (src/src/dnsquery/display.rs).   *)

ResourceRecord_default ==
    [name |-> <<>>, type |-> "A", class |-> "IN", ttl |-> Halves(0, 0),
     rd_length |-> 0, rd_data |-> <<>>]

\* self.rd_data = buffer.get_ref()[]: the statement names no range of the
\* buffer and reads nothing through the cursor; rd_data is one of the slices
\* of the buffer a range can give there: none of it, all of it, what follows
\* the cursor, or the rd_length octets that follow the cursor
RdDataSlices(buf, p, len) ==
    { <<>>, buf, SubSeq(buf, p + 1, Len(buf)) }
    \cup (IF p + len <= Len(buf) THEN { SubSeq(buf, p + 1, p + len) } ELSE {})

\* ResourceRecord::from_network_bytes from self.ttl on, q what the decoding of
\* name, type and class gave: the outcomes
ResourceRecord_from_network_bytes(self, buf, q) ==
    LET r4 == primitive_from_network_bytes("u32", buf, q.position)
        r5 == primitive_from_network_bytes("u16", buf, r4.position)
        s3 == [self EXCEPT !.name = q.self.name, !.type = q.self.type,
                           !.class = q.self.class]
    IN  IF q.result # "Ok"
        THEN { [self |-> s3, position |-> q.position, result |-> q.result] }
        ELSE IF ~r4.ok
        THEN { [self |-> s3, position |-> e, result |-> "Io"]
               : e \in {q.position, Len(buf)} }
        ELSE IF ~r5.ok
        THEN { [self |-> [s3 EXCEPT !.ttl = r4.v], position |-> e, result |-> "Io"]
               : e \in {r4.position, Len(buf)} }
        ELSE { [self |-> [s3 EXCEPT !.ttl = r4.v, !.rd_length = r5.v.lo,
                                    !.rd_data = d],
                position |-> r5.position, result |-> "Ok"]
               : d \in RdDataSlices(buf, r5.position, r5.v.lo) }

\* display_resource: A, HINFO and AAAA are printed when rd_data is of their
\* kind, and panic!("oups") otherwise; every other type is unimplemented!()
display_resource(rr) ==
    IF rr.type = "A" THEN (IF Len(rr.rd_data) = 4 THEN "Ok" ELSE "panic")
    ELSE IF rr.type = "AAAA" THEN (IF Len(rr.rd_data) = 16 THEN "Ok" ELSE "panic")
    ELSE IF rr.type = "HINFO" THEN (IF Len(rr.rd_data) >= 2 THEN "Ok" ELSE "panic")
    ELSE "panic"

\* the longest RDATA of the records of the model whose type fixes no length
MaxRdLength == 3

\* the types of the records, and the RDATA lengths each comes with
RecordTypes == {"A", "AAAA", "HINFO", "NS", "MX", "TXT"}

RdLengths(type) ==
    IF type = "A" THEN {4} ELSE IF type = "AAAA" THEN {16} ELSE 0 .. MaxRdLength

\* a record of the name a, the class IN, the TTL 60 and n octets of RDATA
RecordOf(type, n) ==
    <<1, 97, 0>> \o enum_to_network_bytes(QType, type).bytes \o write_u16(1)
    \o <<0, 0, 0, 60>> \o write_u16(n) \o [i \in 1 .. n |-> i]

\* the octets under the cursor: a record and an A record after it, whole or
\* cut short
InitRecord ==
    /\ InitCommon
    /\ NoPrimitive /\ NoPacket /\ NoEnum /\ NoQuery /\ NoReceive /\ NoName
    /\ flags0 = DNSPacketFlags_default
    /\ text = <<>>
    /\ events = <<>>
    /\ elements = <<>>
    /\ rounds = 0
    /\ status = -1
    /\ record = ResourceRecord_default
    /\ position = 0
    /\ pc = "record_decode"
    /\ \E type \in RecordTypes :
          \E n \in RdLengths(type), cut \in {5, 8, 12, 512} :
             LET whole == RecordOf(type, n) \o RecordOf("A", 4)
             IN  buffer = SubSeq(whole, 1, IF cut < Len(whole) THEN cut ELSE Len(whole))

ResourceRecordFromNetworkBytes ==
    /\ pc = "record_decode"
    /\ \E o \in ResourceRecord_from_network_bytes(record, buffer,
                    DNSQuestion_from_network_bytes(
                        [name |-> record.name, type |-> record.type,
                         class |-> record.class], buffer, position)) :
          /\ record' = o.self
          /\ position' = o.position
          /\ result' = o.result
          /\ pc' = IF o.result = "Ok" THEN "record_display" ELSE "record_failed"
    /\ rounds' = rounds + 1
    /\ UNCHANGED <<buffer, written, flagVars, header, out, nameVars, scalarVars,
                   primVars, packetVars, enumVars, queryVars, receiveVars,
                   text, events, elements, status>>

\* display_resource(&record); after it the next record is decoded
DisplayResource ==
    /\ pc = "record_display"
    /\ IF display_resource(record) = "panic"
       THEN /\ pc' = "record_panic"
            /\ status' = 101
            /\ UNCHANGED events
       ELSE /\ pc' = IF rounds < 2 THEN "record_decode" ELSE "record_done"
            /\ events' = Append(events, "display_record")
            /\ UNCHANGED status
    /\ UNCHANGED <<buffer, position, result, written, flagVars, header, out,
                   nameVars, scalarVars, primVars, packetVars, enumVars,
                   queryVars, receiveVars, text, record, elements, rounds>>

NextRecord == ResourceRecordFromNetworkBytes \/ DisplayResource

SpecRecord == InitRecord /\ [][NextRecord]_vars

\* the octets at the cursor hold, whole, a record of a type that has no
\* decoder of its own
OpaqueRecordAhead ==
    /\ rounds = 0
    /\ \E type \in RecordTypes \ {"A", "AAAA", "HINFO"} :
          \E n \in RdLengths(type) : buffer = RecordOf(type, n) \o RecordOf("A", 4)

\* C22: a record whose type has no RDATA decoder of its own is decoded with
\* its RDATA kept as the RDLENGTH octets after the rd_length field and the
\* cursor moved just past them, so that the record after it decodes; it
\* neither fails nor ends the program
C22_OpaqueRdata ==
    [][ OpaqueRecordAhead /\ ResourceRecordFromNetworkBytes =>
          /\ result' = "Ok"
          /\ record'.rd_data = SubSeq(buffer, 14, 13 + record'.rd_length)
          /\ position' = 13 + record'.rd_length
          /\ display_resource(record') # "panic" ]_vars

-----------------------------------------------------------------------------
(* The character-string codec: ToFromNetworkOrder for CharacterString        *)
(* (src/src/network_order/dns.rs).                                           *)

\* CharacterString::to_network_bytes: Ok(0), nothing is appended
CharacterString_to_network_bytes(self) == [bytes |-> <<>>, length |-> 0]

\* the character strings: every string of at most MaxTextLen letters a and b,
\* one of 11 octets and one of 64
CharacterStrings ==
    UNION { [1 .. n -> {97, 98}] : n \in 0 .. MaxTextLen }
    \cup { Repeat(97, 11), Repeat(97, 64) }

\* a string is encoded into an empty Vec<u8> and the octets produced, put
\* after pos other octets, are decoded with the cursor at pos; or the length
\* octet and the octets of a string stand at pos of a buffer and are decoded
InitString ==
    /\ InitCommon
    /\ NoPrimitive /\ NoPacket /\ NoEnum /\ NoQuery /\ NoReceive
    /\ flags0 = DNSPacketFlags_default
    /\ name0 = <<>>
    /\ index = 0
    /\ events = <<>>
    /\ record = "none"
    /\ elements = <<>>
    /\ status = -1
    /\ text \in CharacterStrings
    /\ pos \in {0, 1, 12}
    /\ position = pos
    /\ \/ /\ pc = "cs_encode"
          /\ rounds = 0
          /\ buffer = Repeat(3, pos)
       \/ /\ pc = "cs_decode"
          /\ rounds = 1
          /\ buffer = Repeat(3, pos) \o <<Len(text)>> \o text

CharacterStringToNetworkBytes ==
    /\ pc = "cs_encode"
    /\ LET e == CharacterString_to_network_bytes(CharacterString_from(text))
       IN  /\ out' = out \o e.bytes
           /\ written' = e.length
           /\ buffer' = buffer \o e.bytes
    /\ pc' = "cs_decode"
    /\ UNCHANGED <<position, result, flagVars, header, nameVars, scalarVars,
                   otherVars>>

NextString == CharacterStringToNetworkBytes \/ CharacterStringFromNetworkBytes

SpecString == InitString /\ [][NextString]_vars

\* C23: encoding a character string s appends its length octet and then its
\* octets and reports 1 + len; decoding these octets where they stand, at
\* position pos, gives s back and leaves the cursor at pos + len + 1
C23_CharacterStringCodec ==
    /\ pc = "cs_decode" /\ rounds = 0 =>
          out = <<Len(text)>> \o text /\ written = Len(text) + 1
    /\ pc \in {"cs_done", "cs_panic"} =>
          /\ pc = "cs_done"
          /\ result = "Ok"
          /\ cs = CharacterString_from(text)
          /\ position = pos + Len(text) + 1

-----------------------------------------------------------------------------
(* Claim about an error met behind a compression pointer.                    *)

\* C27: when the decoding of the suffix a compression pointer refers to ends
\* with an error, the name decoder returns that error to its caller; it does
\* not return Ok for a name whose pointee failed to decode
C27_PointeeErrorReturned ==
    pc = "name_done" /\ discarded \notin {"none", "Ok"} => result = discarded

-----------------------------------------------------------------------------
(* Vec<T>::from_network_bytes (src/src/network_order/primitive.rs) for the   *)
(* fixed-width T of the model.                                               *)

\* for _ in 0..length { u.from_network_bytes(buffer)?; self.push(u) }: the
\* loop from its iteration done on, acc the Vec so far
RECURSIVE ForLength(_, _, _, _, _, _)
ForLength(type, buf, p, length, done, acc) ==
    IF done = length
    THEN [self |-> acc, position |-> p, result |-> "Ok"]
    ELSE LET r == primitive_from_network_bytes(type, buf, p)
         IN  IF ~r.ok
             THEN [self |-> acc, position |-> r.position, result |-> "Io"]
             ELSE ForLength(type, buf, r.position, length, done + 1, Append(acc, r.v))

\* Vec<T>::from_network_bytes on a Cursor at p:
\* let length = buffer.get_ref().len() / std::mem::size_of::<T>(), then the loop
Vec_from_network_bytes(type, self, buf, p) ==
    LET length == Len(buf) \div Width[type]
    IN  ForLength(type, buf, p, length, 0, self)

\* the longest buffer a Vec is decoded from
MaxVecLen == 4

\* the buffers: every one of at most MaxVecLen octets among 0x12 and 0x34,
\* and the one of the doctest
VecBuffers ==
    UNION { [1 .. n -> {18, 52}] : n \in 0 .. MaxVecLen } \cup { <<18, 52, 86, 120>> }

InitVec ==
    /\ InitCommon
    /\ NoPacket /\ NoEnum /\ NoQuery /\ NoReceive
    /\ flags0 = DNSPacketFlags_default
    /\ name0 = <<>>
    /\ index = 0
    /\ text = <<>>
    /\ events = <<>>
    /\ record = "none"
    /\ rounds = 0
    /\ status = -1
    /\ v0 = 0
    /\ number = 0
    /\ elements = <<>>
    /\ prim \in DOMAIN Width
    /\ buffer \in VecBuffers
    /\ pos \in 0 .. Len(buffer)
    /\ position = pos
    /\ pc = "vec_decode"

VecFromNetworkBytes ==
    /\ pc = "vec_decode"
    /\ LET r == Vec_from_network_bytes(prim, elements, buffer, position)
       IN  /\ elements' = r.self
           /\ result' = r.result
           /\ position' \in AfterRead(buffer, r)
    /\ pc' = "vec_done"
    /\ UNCHANGED <<buffer, written, flagVars, header, out, nameVars, scalarVars,
                   primVars, packetVars, enumVars, queryVars, receiveVars,
                   text, events, record, rounds, status>>

NextVec == VecFromNetworkBytes

SpecVec == InitVec /\ [][NextVec]_vars

\* C28: decoding a Vec<T> with the cursor at pos of a buffer of n octets
\* returns Ok, appends (n - pos) / width(T) elements, the i-th read big-endian
\* from the octets at pos + (i - 1) * width(T), and leaves the cursor after
\* the last of them
C28_VecFromRemaining ==
    pc = "vec_done" =>
        LET w == Width[prim]
            count == (Len(buffer) - pos) \div w
        IN  /\ result = "Ok"
            /\ Len(elements) = count
            /\ \A i \in 1 .. Len(elements) :
                  elements[i] = primitive_from_network_bytes(prim, buffer, pos + (i - 1) * w).v
            /\ position = pos + count * w

-----------------------------------------------------------------------------
(* The loop of receive_answer over the questions (src/src/dnsquery/main.rs): *)
(* one DNSQuestion, declared before the loop, is decoded into qd_count       *)
(* times; its name is read by DomainName::from_position.                     *)

\* the names of the questions, none with a pointer: the root, a, and b.a
QuestionNames == { <<0>>, <<1, 97, 0>>, <<1, 98, 1, 97, 0>> }

\* the most questions the buffers of this loop hold
MaxAgain == 3

\* the questions one after the other, each a name, the type A and the class IN
RECURSIVE QuestionRuns(_)
QuestionRuns(n) ==
    IF n = 0 THEN { <<>> }
    ELSE { q \o name \o <<0, 1, 0, 1>> : q \in QuestionRuns(n - 1), name \in QuestionNames }

InitAgain ==
    /\ InitOther
    /\ result = "none"
    /\ written = 0
    /\ flags0 = DNSPacketFlags_default
    /\ flags = DNSPacketFlags_default
    /\ out = <<>>
    /\ stack = <<>>
    /\ labels = <<>>
    /\ ret = 0
    /\ discarded = "none"
    /\ cs = [length |-> 0, data |-> <<>>]
    /\ target = 0
    /\ name0 = <<>>
    /\ position = 0
    /\ pos = 0
    /\ index = 0
    /\ pc = "name_loop"
    /\ \E n \in 1 .. MaxAgain :
          /\ header = [DNSPacketHeader_default EXCEPT !.qd_count = n]
          /\ buffer \in QuestionRuns(n)

\* question.from_network_bytes(&mut cursor)? has returned Ok: the type and the
\* class were read after the name, and the next iteration decodes into the
\* same question
NameAgain ==
    /\ pc = "name_done"
    /\ result = "Ok"
    /\ rounds + 1 < header.qd_count
    /\ rounds' = rounds + 1
    /\ pos' = ret + 4
    /\ index' = ret + 4
    /\ result' = "none"
    /\ pc' = "name_loop"
    /\ UNCHANGED <<buffer, position, written, flagVars, header, out, name0, stack,
                   labels, ret, discarded, scalarVars, primVars, packetVars,
                   enumVars, queryVars, receiveVars, text, events, record,
                   elements, status>>

NextAgain == NameSentinel \/ NameLabel \/ NameAgain

SpecAgain == InitAgain /\ [][NextAgain]_vars

\* C29: whatever the target held before, a decode of a name leaves in it the
\* labels of the name on the wire and one Root after them, and nothing of the
\* names decoded into it earlier
C29_OnlyThisName ==
    pc = "name_done" /\ result = "Ok" =>
        labels = WellFormedName(buffer, pos, {}).labels

-----------------------------------------------------------------------------
(* The size the query advertises and the buffer the response is received     *)
(* into: OPT::default, MAX_DNS_PACKET_SIZE (src/src/rfc1035.rs) and the      *)
(* socket.recv of receive_answer.                                            *)

MAX_DNS_PACKET_SIZE == 512

\* the largest response a server may send to the query q: the UDP payload
\* size of its OPT record, and 512 octets when it has none
Advertised(q) ==
    IF Additionals(q) = <<>> THEN 512 ELSE Additionals(q)[1].udp_payload_size

\* socket.recv(&mut buf) with buf = [0; MAX_DNS_PACKET_SIZE] on a datagram:
\* the octets that fit the buffer, the rest of the datagram is dropped
recv(datagram) ==
    SubSeq(datagram, 1, IF Len(datagram) < MAX_DNS_PACKET_SIZE
                        THEN Len(datagram) ELSE MAX_DNS_PACKET_SIZE)

\* the sizes of the responses of the model
ResponseSizes == {12, 100, 512, 513, 1232, 4096}

\* a query with its question pushed, before the OPT step
InitDatagram ==
    /\ InitCommon
    /\ InitBesidesQuery
    /\ flags0 = DNSPacketFlags_default
    /\ NoName
    /\ buffer = <<>>
    /\ position = 0
    /\ pc = "query_opt"
    /\ program \in {"main", "dnsquery"}
    /\ no_opt \in BOOLEAN
    /\ \E id \in 0 .. 7 :
          query = Pushed(program, id, 1, DNSQuestion_new(SAMPLE_DOMAIN, "A"))
    /\ pushes = 1

\* the server answers the query with a datagram of a size it was allowed
ServerResponds ==
    /\ pc = "query_send"
    /\ \E n \in ResponseSizes :
          /\ n <= Advertised(query)
          /\ buffer' = Repeat(0, n)
    /\ pc' = "datagram_sent"
    /\ UNCHANGED <<position, result, written, flagVars, header, out, nameVars,
                   scalarVars, queryVars, besidesQuery>>

\* let received = socket.recv(&mut buf)?; &buf[..received]
SocketRecv ==
    /\ pc = "datagram_sent"
    /\ out' = recv(buffer)
    /\ written' = Len(recv(buffer))
    /\ pc' = "datagram_received"
    /\ UNCHANGED <<buffer, position, result, flagVars, header, nameVars,
                   scalarVars, queryVars, besidesQuery>>

NextDatagram == QueryOpt \/ ServerResponds \/ SocketRecv

SpecDatagram == InitDatagram /\ [][NextDatagram]_vars

\* C30: the UDP payload size the query advertises in its OPT record is at
\* most the size of the buffer the response is received into, and a response
\* of a size the server was allowed is received whole
C30_AdvertisedFitsBuffer ==
    /\ pc = "query_send" =>
          \A i \in DOMAIN Additionals(query) :
             Additionals(query)[i].udp_payload_size <= MAX_DNS_PACKET_SIZE
    /\ pc = "datagram_received" => out = buffer /\ written = Len(buffer)

==============================================================================
